---- MODULE Spec2Model ----
(***************************************************************************)
(* Statistics aggregation layer of the Saints Encyclopedia web app:        *)
(* the SQL read queries of web/lib/queries.ts over the stat tables, and    *)
(* the /api/leaders route that dispatches to the twelve leaderboards.      *)
(* The tables are sets of rows keyed by (game_id, player_id); each query   *)
(* is an operator computing what its SQL text computes (SQLite semantics: *)
(* SUM/MIN/MAX of no rows is NULL, COUNT of no rows is 0, a bare column of *)
(* a GROUP BY query is taken from an arbitrary row of the group).          *)
(***************************************************************************)
EXTENDS Integers, Sequences, FiniteSets, TLC

\* ── Bounds ──────────────────────────────────────────────────────────────
MaxStat == 2
MaxRows == 2
MaxLimit == 2
MaxClicks == 2

VARIABLES player_passing, player_rushing, player_receiving,
          player_defense, player_sacks, player_interceptions, resp,
          render, stats, table

vars == <<player_passing, player_rushing, player_receiving,
          player_defense, player_sacks, player_interceptions, resp,
          render, stats, table>>

offenseTables == <<player_passing, player_rushing, player_receiving>>
defenseTables == <<player_defense, player_sacks, player_interceptions>>

\* The state of the pages: a server render in progress, the leaderboard page
\* and a mounted StatTable.
ui == <<render, stats, table>>

\* ── SQL values ──────────────────────────────────────────────────────────
\* SQL NULL; every stored or summed number of the model is >= 0.
NULL == 0 - 1

COALESCE(x, d) == IF x = NULL THEN d ELSE x

COALESCE3(x, y, z) == COALESCE(x, COALESCE(y, z))

RECURSIVE Total(_, _)
Total(rows, col) ==
  IF rows = {} THEN 0
  ELSE LET r == CHOOSE x \in rows : TRUE IN r[col] + Total(rows \ {r}, col)

\* SUM(col): NULL over no rows.
SUM(rows, col) == IF rows = {} THEN NULL ELSE Total(rows, col)

\* COUNT(DISTINCT col)
COUNT_DISTINCT(rows, col) == Cardinality({r[col] : r \in rows})

\* MIN(..) / MAX(..) over the values of a column: NULL over no rows.
MIN(vals) == IF vals = {} THEN NULL ELSE CHOOSE x \in vals : \A y \in vals : x <= y

MAX(vals) == IF vals = {} THEN NULL ELSE CHOOSE x \in vals : \A y \in vals : x >= y

\* ORDER BY season
BySeasonAsc(a, b) == a.season <= b.season

\* Mutant of ByYdsDesc: ascending.
ByYdsDesc_Ascending(a, b) == a.yds <= b.yds

\* ORDER BY yds DESC
ByYdsDesc(a, b) == a.yds >= b.yds

\* Mutant of BySacksDesc: ascending order.
BySacksDesc_Ascending(a, b) == a.sacks <= b.sacks

\* ORDER BY sacks DESC
BySacksDesc(a, b) == a.sacks >= b.sacks

\* ORDER BY sacks DESC, it.int_count DESC (NULL is the smallest value).
BySacksThenIntDesc(a, b) ==
  a.sacks > b.sacks \/ (a.sacks = b.sacks /\ a.it_int_count >= b.it_int_count)

\* Code points of the characters that occur in player names and search terms.
Code(c) ==
  CASE c = "A" -> 65 [] c = "B" -> 66 [] c = "O" -> 79
    [] c = "a" -> 97 [] c = "b" -> 98 [] c = "e" -> 101
    [] c = "l" -> 108 [] c = "o" -> 111

\* Text comparison of the default (BINARY) collation: a <= b.
RECURSIVE TextLeq(_, _)
TextLeq(a, b) ==
  IF a = <<>> THEN TRUE
  ELSE IF b = <<>> THEN FALSE
  ELSE IF Code(Head(a)) # Code(Head(b)) THEN Code(Head(a)) < Code(Head(b))
  ELSE TextLeq(Tail(a), Tail(b))

\* ORDER BY p.player_name
ByPlayerName(a, b) == TextLeq(a.player_name, b.player_name)

\* ORDER BY COALESCE(pass.yds, 0) + COALESCE(rush.yds, 0) + COALESCE(recv.yds, 0) DESC
ByTotalYdsDesc(a, b) ==
  a.pass_yds + a.rush_yds + a.rec_yds >= b.pass_yds + b.rush_yds + b.rec_yds

\* ORDER BY g.game_date DESC
ByGameDateDesc(a, b) == a.game_date >= b.game_date

\* ORDER BY game_date
ByGameDateAsc(a, b) == a.game_date <= b.game_date

\* ORDER BY d.round, d.pick
ByRoundThenPick(a, b) == a.round < b.round \/ (a.round = b.round /\ a.pick <= b.pick)

\* Row a may stand before row b under the ORDER BY clause.
Precedes(orderBy, a, b) ==
  CASE orderBy = "season" -> BySeasonAsc(a, b)
    [] orderBy = "p.player_name" -> ByPlayerName(a, b)
    [] orderBy = "total yds DESC" -> ByTotalYdsDesc(a, b)
    [] orderBy = "g.game_date DESC" -> ByGameDateDesc(a, b)
    [] orderBy = "game_date" -> ByGameDateAsc(a, b)
    [] orderBy = "d.round, d.pick" -> ByRoundThenPick(a, b)
    [] orderBy = "yds DESC" -> ByYdsDesc(a, b)
    [] orderBy = "sacks DESC" -> BySacksDesc(a, b)
    [] orderBy = "sacks DESC, it.int_count DESC" -> BySacksThenIntDesc(a, b)

\* ORDER BY ... LIMIT n: every sequence of min(n, |rows|) distinct rows that is
\* sorted by the clause and leaves out no row that must precede a returned one.
\* The order of rows that tie is not fixed by the statement.
OrderByLimit(rows, orderBy, limit) ==
  LET n == IF Cardinality(rows) < limit THEN Cardinality(rows) ELSE limit
  IN { s \in [1..n -> rows] :
         /\ \A i, j \in 1..n : i < j => (s[i] # s[j] /\ Precedes(orderBy, s[i], s[j]))
         /\ \A r \in rows \ {s[i] : i \in 1..n} :
              \A i \in 1..n : Precedes(orderBy, s[i], r) }

\* ── Reference data: games and players ───────────────────────────────────
\* A text column that is NULL (result: string | null).
NULLTEXT == "(null)"

\* The last game has no result recorded.
games ==
  << [game_id |-> 1, season |-> 1999, game_date |-> 19990912, game_type |-> "regular",
      result |-> "W"],
     [game_id |-> 2, season |-> 2001, game_date |-> 20010909, game_type |-> "regular",
      result |-> "L"],
     [game_id |-> 3, season |-> 2001, game_date |-> 20010916, game_type |-> "regular",
      result |-> "T"],
     [game_id |-> 4, season |-> 2001, game_date |-> 20020105, game_type |-> "playoff",
      result |-> "L"],
     [game_id |-> 5, season |-> 1999, game_date |-> 19990814, game_type |-> "preseason",
      result |-> NULLTEXT] >>

GameIds == DOMAIN games

\* Player 1 is an unlinked identity (pfa_url IS NULL); the others are linked.
players ==
  << [player_id |-> 1, player_name |-> <<"A", "l">>, pfa_url |-> NULL],
     [player_id |-> 2, player_name |-> <<"B", "o">>, pfa_url |-> 2],
     [player_id |-> 3, player_name |-> <<"a", "b", "e">>, pfa_url |-> 3] >>

PlayerIds == DOMAIN players

\* JOIN games g ON t.game_id = g.game_id
season(r) == games[r.game_id].season

game_type(r) == games[r.game_id].game_type

Regular(rows) == {r \in rows : game_type(r) = "regular"}

OfPlayer(rows, playerId) == {r \in rows : r.player_id = playerId}

InSeason(rows, s) == {r \in rows : season(r) = s}

Seasons(rows) == {season(r) : r \in rows}

\* ── Per-game stat rows ──────────────────────────────────────────────────
\* The stat line of player p in game g is one of MaxStat levels, from which
\* the counters of a row follow; lines of different games and players differ.
StatLevel(g, p) == 1 + ((g + p) % MaxStat)

PassingRow(g, p, v) ==
  [game_id |-> g, player_id |-> p, att |-> 10 * v, com |-> 6 * v,
   yds |-> 200 + 50 * v, td |-> v, int_thrown |-> v - 1, sacked |-> v + 1,
   pct |-> 60, avg |-> (200 + 50 * v) \div (10 * v), lg |-> 20 + 10 * v,
   rtg |-> IF v = 1 THEN NULL ELSE 70 + 10 * v]

RushingRow(g, p, v) ==
  [game_id |-> g, player_id |-> p, att |-> 8 * v, yds |-> 40 * v, td |-> v - 1,
   avg |-> 5, lg |-> IF v = 1 THEN NULL ELSE 9 + v]

ReceivingRow(g, p, v) ==
  [game_id |-> g, player_id |-> p, rec |-> 3 * v, yds |-> 30 * v + 5, td |-> v,
   avg |-> 10, lg |-> 12 * v]

DefenseRow(g, p, v) ==
  [game_id |-> g, player_id |-> p, tkl |-> 3 * v + 2, tfl |-> v, qh |-> v + 1,
   pd |-> v - 1, ff |-> 2 * v]

SackRow(g, p, v) == [game_id |-> g, player_id |-> p, sacks |-> v, yds |-> 7 * v]

InterceptionRow(g, p, v) ==
  [game_id |-> g, player_id |-> p, int_count |-> v, yds |-> 10 * v, td |-> v - 1]

HasRow(rows, g, p) == \E r \in rows : r.game_id = g /\ r.player_id = p

RowCount ==
  Cardinality(player_passing) + Cardinality(player_rushing)
  + Cardinality(player_receiving) + Cardinality(player_defense)
  + Cardinality(player_sacks) + Cardinality(player_interceptions)

NoResp == [op |-> "none"]

\* The dataset is populated before the layer serves it; the layer never writes.
CanLoad == resp = NoResp /\ RowCount < MaxRows

\* ── Player defensive stats ──────────────────────────────────────────────
\* The three single-row aggregate subqueries of getPlayerCareerDefense
\* (no GROUP BY: one row even over no rows; no game_type filter).
CareerDefSub(playerId) ==
  LET rows == OfPlayer(player_defense, playerId)
  IN [tkl |-> SUM(rows, "tkl"), tfl |-> SUM(rows, "tfl"), qh |-> SUM(rows, "qh"),
      pd_count |-> SUM(rows, "pd"), ff |-> SUM(rows, "ff"),
      games |-> COUNT_DISTINCT(rows, "game_id"),
      first_season |-> MIN(Seasons(rows)), last_season |-> MAX(Seasons(rows))]

CareerSackSub(playerId) ==
  LET rows == OfPlayer(player_sacks, playerId)
  IN [sacks |-> SUM(rows, "sacks"), games |-> COUNT_DISTINCT(rows, "game_id"),
      first_season |-> MIN(Seasons(rows)), last_season |-> MAX(Seasons(rows))]

CareerIntSub(playerId) ==
  LET rows == OfPlayer(player_interceptions, playerId)
  IN [int_count |-> SUM(rows, "int_count"), int_yds |-> SUM(rows, "yds"),
      int_td |-> SUM(rows, "td"), games |-> COUNT_DISTINCT(rows, "game_id"),
      first_season |-> MIN(Seasons(rows)), last_season |-> MAX(Seasons(rows))]

\* The outer MIN(..)/MAX(..) range over the single joined row, so each is the
\* value of its COALESCE argument for that row.
getPlayerCareerDefense(playerId) ==
  LET def == CareerDefSub(playerId)
      sk == CareerSackSub(playerId)
      it == CareerIntSub(playerId)
  IN [tkl |-> COALESCE(def.tkl, 0), tfl |-> COALESCE(def.tfl, 0),
      qh |-> COALESCE(def.qh, 0), pd_count |-> COALESCE(def.pd_count, 0),
      ff |-> COALESCE(def.ff, 0),
      sacks |-> COALESCE(sk.sacks, 0),
      int_count |-> COALESCE(it.int_count, 0),
      int_yds |-> COALESCE(it.int_yds, 0),
      int_td |-> COALESCE(it.int_td, 0),
      games |-> COALESCE(def.games, 0) + COALESCE(sk.games, 0) + COALESCE(it.games, 0),
      first_season |-> MIN({COALESCE3(def.first_season, sk.first_season, it.first_season)}),
      last_season |-> MAX({COALESCE3(def.last_season, sk.last_season, it.last_season)})]

\* The three branches of the UNION ALL shared by getPlayerSeasonDefense and
\* getSeasonDefensiveRecords: one row per (player, season) and source table,
\* the other tables' counters being the literal 0.  src keeps the rows of
\* different branches apart (UNION ALL keeps duplicates).
DefBranch(rows) ==
  { LET grp == InSeason(OfPlayer(rows, k[1]), k[2])
    IN [src |-> "pd", player_id |-> k[1], season |-> k[2],
        tkl |-> SUM(grp, "tkl"), tfl |-> SUM(grp, "tfl"), qh |-> SUM(grp, "qh"),
        pd_count |-> SUM(grp, "pd"), ff |-> SUM(grp, "ff"),
        sacks |-> 0, int_count |-> 0,
        games |-> COUNT_DISTINCT(grp, "game_id")]
    : k \in {<<r.player_id, season(r)>> : r \in rows} }

SackBranch(rows) ==
  { LET grp == InSeason(OfPlayer(rows, k[1]), k[2])
    IN [src |-> "ps", player_id |-> k[1], season |-> k[2],
        tkl |-> 0, tfl |-> 0, qh |-> 0, pd_count |-> 0, ff |-> 0,
        sacks |-> SUM(grp, "sacks"), int_count |-> 0,
        games |-> COUNT_DISTINCT(grp, "game_id")]
    : k \in {<<r.player_id, season(r)>> : r \in rows} }

IntBranch(rows) ==
  { LET grp == InSeason(OfPlayer(rows, k[1]), k[2])
    IN [src |-> "pi", player_id |-> k[1], season |-> k[2],
        tkl |-> 0, tfl |-> 0, qh |-> 0, pd_count |-> 0, ff |-> 0,
        sacks |-> 0, int_count |-> SUM(grp, "int_count"),
        games |-> COUNT_DISTINCT(grp, "game_id")]
    : k \in {<<r.player_id, season(r)>> : r \in rows} }

\* GROUP BY season over the combined rows: SUM of every counter, MAX(games).
PlayerSeasonDefenseRows(playerId) ==
  LET combined == DefBranch(OfPlayer(player_defense, playerId))
                  \cup SackBranch(OfPlayer(player_sacks, playerId))
                  \cup IntBranch(OfPlayer(player_interceptions, playerId))
  IN { LET grp == {c \in combined : c.season = s}
       IN [season |-> s,
           tkl |-> SUM(grp, "tkl"), tfl |-> SUM(grp, "tfl"), qh |-> SUM(grp, "qh"),
           pd_count |-> SUM(grp, "pd_count"), ff |-> SUM(grp, "ff"),
           sacks |-> SUM(grp, "sacks"), int_count |-> SUM(grp, "int_count"),
           games |-> MAX({c.games : c \in grp})]
       : s \in {c.season : c \in combined} }

getPlayerSeasonDefense(playerId) ==
  OrderByLimit(PlayerSeasonDefenseRows(playerId), "season",
               Cardinality(PlayerSeasonDefenseRows(playerId)))

\* ── Defensive leaders ───────────────────────────────────────────────────
\* Mutant of Linked: the eligibility filter lets every player through.
Linked_Anyone(playerId) == playerId \in PlayerIds

\* p.pfa_url IS NOT NULL
Linked(playerId) == players[playerId].pfa_url # NULL

\* Mutant of AllDef: the universe is taken from player_defense alone.
AllDef_TacklesOnly == {r.player_id : r \in player_defense}

\* all_def: UNION of the player ids of the three tables (no game_type filter).
AllDef ==
  {r.player_id : r \in player_defense} \cup {r.player_id : r \in player_sacks}
  \cup {r.player_id : r \in player_interceptions}

\* The grouped subqueries def / sk / it of getCareerDefensiveLeaders; a player
\* with no regular-season row has no group, and the LEFT JOIN yields NULLs.
LeadersDefSub(playerId) ==
  LET rows == OfPlayer(Regular(player_defense), playerId)
  IN IF rows = {}
     THEN [tkl |-> NULL, tfl |-> NULL, qh |-> NULL, pd_count |-> NULL, ff |-> NULL,
           games |-> NULL]
     ELSE [tkl |-> SUM(rows, "tkl"), tfl |-> SUM(rows, "tfl"), qh |-> SUM(rows, "qh"),
           pd_count |-> SUM(rows, "pd"), ff |-> SUM(rows, "ff"),
           games |-> COUNT_DISTINCT(rows, "game_id")]

LeadersSackSub(playerId) ==
  LET rows == OfPlayer(Regular(player_sacks), playerId)
  IN IF rows = {} THEN [sacks |-> NULL, games |-> NULL]
     ELSE [sacks |-> SUM(rows, "sacks"), games |-> COUNT_DISTINCT(rows, "game_id")]

LeadersIntSub(playerId) ==
  LET rows == OfPlayer(Regular(player_interceptions), playerId)
  IN IF rows = {} THEN [int_count |-> NULL, games |-> NULL]
     ELSE [int_count |-> SUM(rows, "int_count"),
           games |-> COUNT_DISTINCT(rows, "game_id")]

CareerDefensiveRows ==
  { LET def == LeadersDefSub(p)
        sk == LeadersSackSub(p)
        it == LeadersIntSub(p)
    IN [player_id |-> p,
        tkl |-> COALESCE(def.tkl, 0), tfl |-> COALESCE(def.tfl, 0),
        qh |-> COALESCE(def.qh, 0), pd_count |-> COALESCE(def.pd_count, 0),
        ff |-> COALESCE(def.ff, 0),
        sacks |-> COALESCE(sk.sacks, 0),
        int_count |-> COALESCE(it.int_count, 0),
        games |-> COALESCE(def.games, 0) + COALESCE(sk.games, 0)
                  + COALESCE(it.games, 0)]
    : p \in {q \in AllDef : Linked(q)} }

getCareerDefensiveLeaders(limit) == OrderByLimit(CareerDefensiveRows, "sacks DESC", limit)

\* combined JOIN players WHERE pfa_url IS NOT NULL, before the outer GROUP BY.
SeasonDefensiveCombined ==
  { c \in DefBranch(Regular(player_defense)) \cup SackBranch(Regular(player_sacks))
          \cup IntBranch(Regular(player_interceptions)) : Linked(c.player_id) }

\* Mutant of SeasonDefensiveRowSets: without the outer GROUP BY, one row per
\* row of combined.
SeasonDefensiveRowSets_Ungrouped ==
  { { [player_id |-> c.player_id, season |-> c.season,
       tkl |-> COALESCE(c.tkl, 0), tfl |-> COALESCE(c.tfl, 0),
       qh |-> COALESCE(c.qh, 0), pd_count |-> COALESCE(c.pd_count, 0),
       ff |-> COALESCE(c.ff, 0), sacks |-> COALESCE(c.sacks, 0),
       int_count |-> COALESCE(c.int_count, 0), games |-> c.games]
      : c \in SeasonDefensiveCombined } }

\* GROUP BY combined.player_id, season with no aggregate in the select list:
\* every output column is a bare column, taken from one row of the group, the
\* same row for all columns and not determined by the statement.
SeasonDefensiveRowSets ==
  LET keys == {<<c.player_id, c.season>> : c \in SeasonDefensiveCombined}
      grp(k) == {c \in SeasonDefensiveCombined : c.player_id = k[1] /\ c.season = k[2]}
      picks == {f \in [keys -> SeasonDefensiveCombined] : \A k \in keys : f[k] \in grp(k)}
  IN { { [player_id |-> f[k].player_id, season |-> f[k].season,
          tkl |-> COALESCE(f[k].tkl, 0), tfl |-> COALESCE(f[k].tfl, 0),
          qh |-> COALESCE(f[k].qh, 0), pd_count |-> COALESCE(f[k].pd_count, 0),
          ff |-> COALESCE(f[k].ff, 0),
          sacks |-> COALESCE(f[k].sacks, 0),
          int_count |-> COALESCE(f[k].int_count, 0),
          games |-> f[k].games] : k \in keys }
       : f \in picks }

getSeasonDefensiveRecords(limit) ==
  UNION { OrderByLimit(rows, "sacks DESC", limit) : rows \in SeasonDefensiveRowSets }

\* all_gp: UNION of (game_id, player_id) of the three tables.
AllGp ==
  {<<r.game_id, r.player_id>> : r \in player_defense}
  \cup {<<r.game_id, r.player_id>> : r \in player_sacks}
  \cup {<<r.game_id, r.player_id>> : r \in player_interceptions}

\* LEFT JOIN t ON t.player_id = .. AND t.game_id = ..: the matching row's
\* column, NULL without a match (at most one row per key).
LeftJoinCol(rows, gp, col) ==
  IF HasRow(rows, gp[1], gp[2])
  THEN (CHOOSE r \in rows : r.game_id = gp[1] /\ r.player_id = gp[2])[col]
  ELSE NULL

\* The joined rows before projection; it_int_count is it.int_count itself.
SingleGameDefensiveJoined ==
  { [player_id |-> gp[2], game_id |-> gp[1],
     tkl |-> COALESCE(LeftJoinCol(player_defense, gp, "tkl"), 0),
     tfl |-> COALESCE(LeftJoinCol(player_defense, gp, "tfl"), 0),
     qh |-> COALESCE(LeftJoinCol(player_defense, gp, "qh"), 0),
     pd_count |-> COALESCE(LeftJoinCol(player_defense, gp, "pd"), 0),
     ff |-> COALESCE(LeftJoinCol(player_defense, gp, "ff"), 0),
     sacks |-> COALESCE(LeftJoinCol(player_sacks, gp, "sacks"), 0),
     int_count |-> COALESCE(LeftJoinCol(player_interceptions, gp, "int_count"), 0),
     it_int_count |-> LeftJoinCol(player_interceptions, gp, "int_count")]
    : gp \in {x \in AllGp : games[x[1]].game_type = "regular" /\ Linked(x[2])} }

SingleGameDefensiveRow(j) ==
  [player_id |-> j.player_id,
   tkl |-> j.tkl, tfl |-> j.tfl, qh |-> j.qh, pd_count |-> j.pd_count, ff |-> j.ff,
   sacks |-> j.sacks, int_count |-> j.int_count,
   game_date |-> games[j.game_id].game_date, season |-> games[j.game_id].season]

getSingleGameDefensiveLeaders(limit) ==
  { [i \in DOMAIN s |-> SingleGameDefensiveRow(s[i])]
    : s \in OrderByLimit(SingleGameDefensiveJoined, "sacks DESC, it.int_count DESC", limit) }

\* ── Per-player passing / rushing / receiving summaries ──────────────────
\* Mutant of getPlayerCareerPassing: games counts the player's games of all
\* three offensive tables instead of the passing rows' games.
getPlayerCareerPassing_AnyStatGames(playerId) ==
  LET rows == OfPlayer(player_passing, playerId)
      any == {r.game_id : r \in OfPlayer(player_passing, playerId)}
             \cup {r.game_id : r \in OfPlayer(player_rushing, playerId)}
             \cup {r.game_id : r \in OfPlayer(player_receiving, playerId)}
  IN [att |-> SUM(rows, "att"), com |-> SUM(rows, "com"), yds |-> SUM(rows, "yds"),
      td |-> SUM(rows, "td"), int_thrown |-> SUM(rows, "int_thrown"),
      sacked |-> SUM(rows, "sacked"),
      games |-> Cardinality(any),
      first_season |-> MIN(Seasons(rows)), last_season |-> MAX(Seasons(rows))]

\* Aggregates without GROUP BY and without a game_type filter: one row always.
getPlayerCareerPassing(playerId) ==
  LET rows == OfPlayer(player_passing, playerId)
  IN [att |-> SUM(rows, "att"), com |-> SUM(rows, "com"), yds |-> SUM(rows, "yds"),
      td |-> SUM(rows, "td"), int_thrown |-> SUM(rows, "int_thrown"),
      sacked |-> SUM(rows, "sacked"),
      games |-> COUNT_DISTINCT(rows, "game_id"),
      first_season |-> MIN(Seasons(rows)), last_season |-> MAX(Seasons(rows))]

getPlayerCareerRushing(playerId) ==
  LET rows == OfPlayer(player_rushing, playerId)
  IN [att |-> SUM(rows, "att"), yds |-> SUM(rows, "yds"), td |-> SUM(rows, "td"),
      games |-> COUNT_DISTINCT(rows, "game_id"),
      first_season |-> MIN(Seasons(rows)), last_season |-> MAX(Seasons(rows))]

getPlayerCareerReceiving(playerId) ==
  LET rows == OfPlayer(player_receiving, playerId)
  IN [rec |-> SUM(rows, "rec"), yds |-> SUM(rows, "yds"), td |-> SUM(rows, "td"),
      games |-> COUNT_DISTINCT(rows, "game_id"),
      first_season |-> MIN(Seasons(rows)), last_season |-> MAX(Seasons(rows))]

PlayerSeasonStatsRows(playerId) ==
  { LET grp == InSeason(OfPlayer(player_passing, playerId), s)
    IN [season |-> s,
        pass_att |-> SUM(grp, "att"), pass_com |-> SUM(grp, "com"),
        pass_yds |-> SUM(grp, "yds"), pass_td |-> SUM(grp, "td"),
        pass_int |-> SUM(grp, "int_thrown"),
        pass_games |-> COUNT_DISTINCT(grp, "game_id")]
    : s \in Seasons(OfPlayer(player_passing, playerId)) }

getPlayerSeasonStats(playerId) ==
  OrderByLimit(PlayerSeasonStatsRows(playerId), "season",
               Cardinality(PlayerSeasonStatsRows(playerId)))

PlayerSeasonRushingRows(playerId) ==
  { LET grp == InSeason(OfPlayer(player_rushing, playerId), s)
    IN [season |-> s,
        rush_att |-> SUM(grp, "att"), rush_yds |-> SUM(grp, "yds"),
        rush_td |-> SUM(grp, "td"),
        rush_games |-> COUNT_DISTINCT(grp, "game_id")]
    : s \in Seasons(OfPlayer(player_rushing, playerId)) }

getPlayerSeasonRushing(playerId) ==
  OrderByLimit(PlayerSeasonRushingRows(playerId), "season",
               Cardinality(PlayerSeasonRushingRows(playerId)))

PlayerSeasonReceivingRows(playerId) ==
  { LET grp == InSeason(OfPlayer(player_receiving, playerId), s)
    IN [season |-> s,
        rec |-> SUM(grp, "rec"), rec_yds |-> SUM(grp, "yds"),
        rec_td |-> SUM(grp, "td"),
        rec_games |-> COUNT_DISTINCT(grp, "game_id")]
    : s \in Seasons(OfPlayer(player_receiving, playerId)) }

getPlayerSeasonReceiving(playerId) ==
  OrderByLimit(PlayerSeasonReceivingRows(playerId), "season",
               Cardinality(PlayerSeasonReceivingRows(playerId)))

\* ── Leaderboards ────────────────────────────────────────────────────────
\* Mutant of LeaderRows: the game_type condition is missing.
LeaderRows_AnyGameType(rows) == {r \in rows : Linked(r.player_id)}

\* FROM t JOIN players p JOIN games g
\* WHERE g.game_type = 'regular' AND p.pfa_url IS NOT NULL
LeaderRows(rows) == {r \in Regular(rows) : Linked(r.player_id)}

CareerPassingRows ==
  { LET grp == OfPlayer(LeaderRows(player_passing), p)
    IN [player_id |-> p,
        yds |-> SUM(grp, "yds"), td |-> SUM(grp, "td"),
        int_thrown |-> SUM(grp, "int_thrown"),
        com |-> SUM(grp, "com"), att |-> SUM(grp, "att"),
        games |-> COUNT_DISTINCT(grp, "game_id")]
    : p \in {r.player_id : r \in LeaderRows(player_passing)} }

getCareerPassingLeaders(limit) == OrderByLimit(CareerPassingRows, "yds DESC", limit)

CareerRushingRows ==
  { LET grp == OfPlayer(LeaderRows(player_rushing), p)
    IN [player_id |-> p,
        yds |-> SUM(grp, "yds"), td |-> SUM(grp, "td"), att |-> SUM(grp, "att"),
        games |-> COUNT_DISTINCT(grp, "game_id")]
    : p \in {r.player_id : r \in LeaderRows(player_rushing)} }

getCareerRushingLeaders(limit) == OrderByLimit(CareerRushingRows, "yds DESC", limit)

CareerReceivingRows ==
  { LET grp == OfPlayer(LeaderRows(player_receiving), p)
    IN [player_id |-> p,
        yds |-> SUM(grp, "yds"), td |-> SUM(grp, "td"), rec |-> SUM(grp, "rec"),
        games |-> COUNT_DISTINCT(grp, "game_id")]
    : p \in {r.player_id : r \in LeaderRows(player_receiving)} }

getCareerReceivingLeaders(limit) == OrderByLimit(CareerReceivingRows, "yds DESC", limit)

SingleGamePassingRows ==
  { [player_id |-> r.player_id,
     yds |-> r.yds, td |-> r.td, com |-> r.com, att |-> r.att,
     int_thrown |-> r.int_thrown, rtg |-> r.rtg,
     game_date |-> games[r.game_id].game_date, season |-> season(r)]
    : r \in LeaderRows(player_passing) }

getSingleGamePassingLeaders(limit) == OrderByLimit(SingleGamePassingRows, "yds DESC", limit)

SingleGameRushingRows ==
  { [player_id |-> r.player_id,
     yds |-> r.yds, td |-> r.td, att |-> r.att,
     game_date |-> games[r.game_id].game_date, season |-> season(r)]
    : r \in LeaderRows(player_rushing) }

getSingleGameRushingLeaders(limit) == OrderByLimit(SingleGameRushingRows, "yds DESC", limit)

SingleGameReceivingRows ==
  { [player_id |-> r.player_id,
     yds |-> r.yds, td |-> r.td, rec |-> r.rec,
     game_date |-> games[r.game_id].game_date, season |-> season(r)]
    : r \in LeaderRows(player_receiving) }

getSingleGameReceivingLeaders(limit) ==
  OrderByLimit(SingleGameReceivingRows, "yds DESC", limit)

PlayerSeasonKeys(rows) == {<<r.player_id, season(r)>> : r \in rows}

SeasonPassingRows ==
  { LET grp == InSeason(OfPlayer(LeaderRows(player_passing), k[1]), k[2])
    IN [player_id |-> k[1], season |-> k[2],
        yds |-> SUM(grp, "yds"), td |-> SUM(grp, "td"),
        int_thrown |-> SUM(grp, "int_thrown"),
        com |-> SUM(grp, "com"), att |-> SUM(grp, "att"),
        games |-> COUNT_DISTINCT(grp, "game_id")]
    : k \in PlayerSeasonKeys(LeaderRows(player_passing)) }

getSeasonPassingRecords(limit) == OrderByLimit(SeasonPassingRows, "yds DESC", limit)

SeasonRushingRows ==
  { LET grp == InSeason(OfPlayer(LeaderRows(player_rushing), k[1]), k[2])
    IN [player_id |-> k[1], season |-> k[2],
        yds |-> SUM(grp, "yds"), td |-> SUM(grp, "td"), att |-> SUM(grp, "att"),
        games |-> COUNT_DISTINCT(grp, "game_id")]
    : k \in PlayerSeasonKeys(LeaderRows(player_rushing)) }

getSeasonRushingRecords(limit) == OrderByLimit(SeasonRushingRows, "yds DESC", limit)

SeasonReceivingRows ==
  { LET grp == InSeason(OfPlayer(LeaderRows(player_receiving), k[1]), k[2])
    IN [player_id |-> k[1], season |-> k[2],
        yds |-> SUM(grp, "yds"), td |-> SUM(grp, "td"), rec |-> SUM(grp, "rec"),
        games |-> COUNT_DISTINCT(grp, "game_id")]
    : k \in PlayerSeasonKeys(LeaderRows(player_receiving)) }

getSeasonReceivingRecords(limit) == OrderByLimit(SeasonReceivingRows, "yds DESC", limit)

\* ── Player game log ─────────────────────────────────────────────────────
\* The value of an optional argument the caller leaves out.
undefined == 0 - 2

\* season ? .. : ..  (undefined and 0 are falsy)
Truthy(x) == x # undefined /\ x # 0

\* The joined row of game g for the player: NULL columns where a LEFT JOIN
\* finds no row.
GameLogRow(g, playerId) ==
  [game_id |-> g, season |-> games[g].season, game_date |-> games[g].game_date,
   game_type |-> games[g].game_type,
   pass_att |-> LeftJoinCol(player_passing, <<g, playerId>>, "att"),
   pass_com |-> LeftJoinCol(player_passing, <<g, playerId>>, "com"),
   pass_yds |-> LeftJoinCol(player_passing, <<g, playerId>>, "yds"),
   pass_td |-> LeftJoinCol(player_passing, <<g, playerId>>, "td"),
   pass_int |-> LeftJoinCol(player_passing, <<g, playerId>>, "int_thrown"),
   rush_att |-> LeftJoinCol(player_rushing, <<g, playerId>>, "att"),
   rush_yds |-> LeftJoinCol(player_rushing, <<g, playerId>>, "yds"),
   rush_td |-> LeftJoinCol(player_rushing, <<g, playerId>>, "td"),
   rec |-> LeftJoinCol(player_receiving, <<g, playerId>>, "rec"),
   rec_yds |-> LeftJoinCol(player_receiving, <<g, playerId>>, "yds"),
   rec_td |-> LeftJoinCol(player_receiving, <<g, playerId>>, "td")]

\* Mutant of getPlayerGameLog: without AND g.game_type != 'preseason'.
getPlayerGameLog_WithPreseason(playerId, seasonArg) ==
  LET whereClause(g) == IF Truthy(seasonArg) THEN games[g].season = seasonArg ELSE TRUE
      matched == {g \in GameIds :
                    /\ (\/ HasRow(player_passing, g, playerId)
                        \/ HasRow(player_rushing, g, playerId)
                        \/ HasRow(player_receiving, g, playerId))
                    /\ whereClause(g)}
  IN OrderByLimit({GameLogRow(g, playerId) : g \in matched}, "g.game_date DESC",
                  Cardinality(matched))

getPlayerGameLog(playerId, seasonArg) ==
  LET whereClause(g) == IF Truthy(seasonArg) THEN games[g].season = seasonArg ELSE TRUE
      matched == {g \in GameIds :
                    /\ (\/ HasRow(player_passing, g, playerId)
                        \/ HasRow(player_rushing, g, playerId)
                        \/ HasRow(player_receiving, g, playerId))
                    /\ games[g].game_type # "preseason"
                    /\ whereClause(g)}
  IN OrderByLimit({GameLogRow(g, playerId) : g \in matched}, "g.game_date DESC",
                  Cardinality(matched))

\* ── Players directory ───────────────────────────────────────────────────
\* LIKE compares ASCII letters without regard to case.
Fold(c) == CASE c = "A" -> "a" [] c = "B" -> "b" [] c = "O" -> "o" [] OTHER -> c

\* name LIKE '%q%'
Like(name, q) ==
  \E i \in 0..(Len(name) - Len(q)) :
    \A k \in 1..Len(q) : Fold(name[i + k]) = Fold(q[k])

\* (SELECT MIN(..) UNION ALL SELECT MIN(..) UNION ALL SELECT MIN(..) ORDER BY 1 LIMIT 1):
\* the first of the three values in ascending order, NULL sorting before every number.
FirstAscending(vals) == CHOOSE x \in vals : \A y \in vals : x <= y

\* (.. ORDER BY 1 DESC LIMIT 1): the first in descending order, NULL sorting last.
FirstDescending(vals) == CHOOSE x \in vals : \A y \in vals : x >= y

SearchPlayersRow(p) ==
  [player_id |-> p, player_name |-> players[p].player_name,
   first_season |-> FirstAscending({MIN(Seasons(OfPlayer(player_passing, p))),
                                    MIN(Seasons(OfPlayer(player_rushing, p))),
                                    MIN(Seasons(OfPlayer(player_receiving, p)))}),
   last_season |-> FirstDescending({MAX(Seasons(OfPlayer(player_passing, p))),
                                    MAX(Seasons(OfPlayer(player_rushing, p))),
                                    MAX(Seasons(OfPlayer(player_receiving, p)))})]

searchPlayers(q, limit) ==
  OrderByLimit({SearchPlayersRow(p) : p \in {x \in PlayerIds :
                                      Like(players[x].player_name, q) /\ Linked(x)}},
               "p.player_name", limit)

\* The pass / rush / recv subqueries of getPlayersWithStats: grouped by
\* player over every game type; no row for a player without rows (LEFT JOIN).
StatsSub(rows, p, col) == SUM(OfPlayer(rows, p), col)

PlayersWithStatsRow(p) ==
  [player_id |-> p, player_name |-> players[p].player_name,
   pass_yds |-> COALESCE(StatsSub(player_passing, p, "yds"), 0),
   pass_td |-> COALESCE(StatsSub(player_passing, p, "td"), 0),
   rush_yds |-> COALESCE(StatsSub(player_rushing, p, "yds"), 0),
   rush_td |-> COALESCE(StatsSub(player_rushing, p, "td"), 0),
   rec_yds |-> COALESCE(StatsSub(player_receiving, p, "yds"), 0),
   rec_td |-> COALESCE(StatsSub(player_receiving, p, "td"), 0),
   stat_entries |-> COUNT_DISTINCT(OfPlayer(player_passing, p), "game_id")
                    + COUNT_DISTINCT(OfPlayer(player_rushing, p), "game_id")
                    + COUNT_DISTINCT(OfPlayer(player_receiving, p), "game_id")]

PlayersWithStatsRows ==
  {PlayersWithStatsRow(p) : p \in {x \in PlayerIds :
     /\ COALESCE(StatsSub(player_passing, x, "yds"), 0)
        + COALESCE(StatsSub(player_rushing, x, "yds"), 0)
        + COALESCE(StatsSub(player_receiving, x, "yds"), 0) > 0
     /\ Linked(x)}}

\* LIMIT ? OFFSET ?: the rows offset+1 .. offset+limit of the ordered result.
LimitOffset(sorted, limit, offset) ==
  LET last == IF Len(sorted) < offset + limit THEN Len(sorted) ELSE offset + limit
  IN SubSeq(sorted, offset + 1, last)

getPlayersWithStats(limit, offset) ==
  {LimitOffset(sorted, limit, offset) :
     sorted \in OrderByLimit(PlayersWithStatsRows, "total yds DESC",
                             Cardinality(PlayersWithStatsRows))}

\* ── Pages: seasons/[year], draft/[year], players/[id], games/[id] ────────
\* The result of parseInt for a string without a leading number.
NaN == 0 - 1000000

isNaN(x) == x = NaN

\* The result of queryOne when no row matches.
null == [isNull |-> TRUE]

DigitValue(c) ==
  CASE c = "0" -> 0 [] c = "1" -> 1 [] c = "2" -> 2 [] c = "3" -> 3 [] c = "4" -> 4
    [] c = "5" -> 5 [] c = "6" -> 6 [] c = "7" -> 7 [] c = "8" -> 8 [] c = "9" -> 9

IsDigit(c, radix) ==
  c \in {"0", "1", "2", "3", "4", "5", "6", "7", "8", "9"} /\ DigitValue(c) < radix

RECURSIVE DropSpaces(_)
DropSpaces(str) ==
  IF str # <<>> /\ Head(str) = " " THEN DropSpaces(Tail(str)) ELSE str

\* The longest prefix of str made of digits of the radix.
RECURSIVE LeadingDigits(_, _)
LeadingDigits(str, radix) ==
  IF str # <<>> /\ IsDigit(Head(str), radix)
  THEN <<Head(str)>> \o LeadingDigits(Tail(str), radix)
  ELSE <<>>

RECURSIVE DigitsValue(_, _)
DigitsValue(ds, radix) ==
  IF ds = <<>> THEN 0
  ELSE DigitsValue(SubSeq(ds, 1, Len(ds) - 1), radix) * radix + DigitValue(ds[Len(ds)])

\* parseInt(str, radix): leading white space is skipped, a sign is read, then
\* the longest run of digits; whatever follows the digits is ignored.
parseInt(str, radix) ==
  LET t == DropSpaces(str)
      signed == t # <<>> /\ Head(t) \in {"-", "+"}
      ds == LeadingDigits(IF signed THEN Tail(t) ELSE t, radix)
  IN IF ds = <<>> THEN NaN
     ELSE IF signed /\ Head(t) = "-" THEN 0 - DigitsValue(ds, radix)
     ELSE DigitsValue(ds, radix)

\* Mutant of getSeasonGames: with the game_type = 'regular' condition of the
\* other season queries.
getSeasonGames_RegularOnly(year) ==
  LET rows == {games[g] : g \in {x \in GameIds : games[x].season = year
                                                  /\ games[x].game_type = "regular"}}
  IN OrderByLimit(rows, "game_date", Cardinality(rows))

\* SELECT * FROM games WHERE season = ? ORDER BY game_date
getSeasonGames(year) ==
  LET rows == {games[g] : g \in {x \in GameIds : games[x].season = year}}
  IN OrderByLimit(rows, "game_date", Cardinality(rows))

SeasonLeadersLimit == 5

\* The rows of a table that a season-leaders query groups by player.
SeasonLeaderRowsOf(rows, year) ==
  {r \in InSeason(Regular(rows), year) : Linked(r.player_id)}

\* Mutant of getSeasonPassingLeaders: the aggregate without GROUP BY, which
\* yields one row even over no rows.
getSeasonPassingLeaders_NoGroupBy(year) ==
  LET rows == SeasonLeaderRowsOf(player_passing, year)
  IN {<<[player_id |-> IF rows = {} THEN NULL ELSE (CHOOSE r \in rows : TRUE).player_id,
         att |-> SUM(rows, "att"), com |-> SUM(rows, "com"),
         yds |-> SUM(rows, "yds"), td |-> SUM(rows, "td"),
         int_thrown |-> SUM(rows, "int_thrown"),
         games |-> Cardinality(rows)]>>}

getSeasonPassingLeaders(year) ==
  LET rows == SeasonLeaderRowsOf(player_passing, year)
  IN OrderByLimit(
       {[player_id |-> p,
         att |-> SUM(OfPlayer(rows, p), "att"), com |-> SUM(OfPlayer(rows, p), "com"),
         yds |-> SUM(OfPlayer(rows, p), "yds"), td |-> SUM(OfPlayer(rows, p), "td"),
         int_thrown |-> SUM(OfPlayer(rows, p), "int_thrown"),
         games |-> Cardinality(OfPlayer(rows, p))] : p \in {r.player_id : r \in rows}},
       "yds DESC", SeasonLeadersLimit)

getSeasonRushingLeaders(year) ==
  LET rows == SeasonLeaderRowsOf(player_rushing, year)
  IN OrderByLimit(
       {[player_id |-> p,
         att |-> SUM(OfPlayer(rows, p), "att"), yds |-> SUM(OfPlayer(rows, p), "yds"),
         td |-> SUM(OfPlayer(rows, p), "td"),
         games |-> Cardinality(OfPlayer(rows, p))] : p \in {r.player_id : r \in rows}},
       "yds DESC", SeasonLeadersLimit)

getSeasonReceivingLeaders(year) ==
  LET rows == SeasonLeaderRowsOf(player_receiving, year)
  IN OrderByLimit(
       {[player_id |-> p,
         rec |-> SUM(OfPlayer(rows, p), "rec"), yds |-> SUM(OfPlayer(rows, p), "yds"),
         td |-> SUM(OfPlayer(rows, p), "td"),
         games |-> Cardinality(OfPlayer(rows, p))] : p \in {r.player_id : r \in rows}},
       "yds DESC", SeasonLeadersLimit)

\* SELECT * FROM games WHERE game_id = ?
getGame(id) == IF id \in GameIds THEN games[id] ELSE null

\* SELECT * FROM players WHERE player_id = ?
getPlayer(id) == IF id \in PlayerIds THEN players[id] ELSE null

\* Reference data: the draft picks.
draft_picks ==
  {[season |-> 1999, round |-> 1, pick |-> 12, player_name |-> <<"B", "o">>, player_id |-> 2],
   [season |-> 1999, round |-> 2, pick |-> 40, player_name |-> <<"A", "B", "E">>,
    player_id |-> NULL],
   [season |-> 2005, round |-> 1, pick |-> 25, player_name |-> <<"o", "l", "e">>,
    player_id |-> NULL]}

\* LOWER(text)
LOWER(text) == [i \in 1..Len(text) |-> Fold(text[i])]

\* (SELECT p.player_id FROM players p WHERE .. LIMIT 1): the values the scalar
\* subquery may take, NULL when no player matches.
FirstPlayerId(matching) == IF matching = {} THEN {NULL} ELSE matching

getDraftByYear(year) ==
  LET picks == {d \in draft_picks : d.season = year}
      byId(d) == FirstPlayerId({p \in PlayerIds : p = d.player_id})
      byName(d) == FirstPlayerId({p \in PlayerIds :
                                    LOWER(players[p].player_name) = LOWER(d.player_name)})
      linked(d) == {COALESCE(a, b) : a \in byId(d), b \in byName(d)}
      choices == {f \in [picks -> PlayerIds \cup {NULL}] : \A d \in picks : f[d] \in linked(d)}
  IN UNION {OrderByLimit({[season |-> d.season, round |-> d.round, pick |-> d.pick,
                           player_name |-> d.player_name, player_id |-> d.player_id,
                           linked_player_id |-> f[d]] : d \in picks},
                         "d.round, d.pick", Cardinality(picks)) : f \in choices}

\* SELECT d.* FROM draft_picks d WHERE d.player_id = ? OR LOWER(d.player_name) =
\* (SELECT LOWER(player_name) FROM players WHERE player_id = ?) LIMIT 1:
\* any one matching pick, null without a match.
getPlayerDraftInfo(playerId) ==
  LET matching == {d \in draft_picks :
                     \/ d.player_id = playerId
                     \/ (playerId \in PlayerIds
                         /\ LOWER(d.player_name) = LOWER(players[playerId].player_name))}
  IN IF matching = {} THEN {null} ELSE matching

\* Mutant of FilterByGameType: the playoff list takes every game that is not
\* a regular-season game.
FilterByGameType_PlayoffIsTheRest(gs, t) ==
  LET Test(g) == IF t = "playoff" THEN g.game_type # "regular" ELSE g.game_type = t
  IN SelectSeq(gs, Test)

\* games.filter((g) => g.game_type === t)
FilterByGameType(gs, t) ==
  LET Test(g) == g.game_type = t IN SelectSeq(gs, Test)

\* ── /api/leaders ────────────────────────────────────────────────────────
\* searchParams.get(..) of a parameter the URL does not carry.
ABSENT == "(absent)"

\* Mutant of VALID_GAME_TYPES: "all" is a game type too.
VALID_GAME_TYPES_WithAll == {"regular", "playoff", "preseason", "all"}

VALID_GAME_TYPES == {"regular", "playoff", "preseason"}

ApiLimit == 50

fetchers ==
  [career |-> [passing |-> "getCareerPassingLeaders",
               rushing |-> "getCareerRushingLeaders",
               receiving |-> "getCareerReceivingLeaders",
               defense |-> "getCareerDefensiveLeaders"],
   season |-> [passing |-> "getSeasonPassingRecords",
               rushing |-> "getSeasonRushingRecords",
               receiving |-> "getSeasonReceivingRecords",
               defense |-> "getSeasonDefensiveRecords"],
   game |-> [passing |-> "getSingleGamePassingLeaders",
             rushing |-> "getSingleGameRushingLeaders",
             receiving |-> "getSingleGameReceivingLeaders",
             defense |-> "getSingleGameDefensiveLeaders"]]

\* fetchers[scope]?.[category]: the own key of the object literal, else the
\* property inherited from Object.prototype, else undefined.  Of the parameter
\* values of the model only toString names an inherited property.
Lookup(scope, category) ==
  IF scope \notin DOMAIN fetchers THEN "undefined"
  ELSE IF category \in DOMAIN fetchers[scope] THEN fetchers[scope][category]
  ELSE IF category = "toString" THEN "Object.prototype.toString"
  ELSE "undefined"

\* The data-store queries a call of the fetcher issues.
QueriesOf(fetcher) ==
  IF fetcher = "Object.prototype.toString" THEN <<>> ELSE <<fetcher>>

\* fetcher(50, gameType): every query function declares the single parameter
\* limit, so the second argument is not read by any of them.
CallFetcher(fetcher, limit, gameType) ==
  CASE fetcher = "getCareerPassingLeaders" -> getCareerPassingLeaders(limit)
    [] fetcher = "getCareerRushingLeaders" -> getCareerRushingLeaders(limit)
    [] fetcher = "getCareerReceivingLeaders" -> getCareerReceivingLeaders(limit)
    [] fetcher = "getCareerDefensiveLeaders" -> getCareerDefensiveLeaders(limit)
    [] fetcher = "getSeasonPassingRecords" -> getSeasonPassingRecords(limit)
    [] fetcher = "getSeasonRushingRecords" -> getSeasonRushingRecords(limit)
    [] fetcher = "getSeasonReceivingRecords" -> getSeasonReceivingRecords(limit)
    [] fetcher = "getSeasonDefensiveRecords" -> getSeasonDefensiveRecords(limit)
    [] fetcher = "getSingleGamePassingLeaders" -> getSingleGamePassingLeaders(limit)
    [] fetcher = "getSingleGameRushingLeaders" -> getSingleGameRushingLeaders(limit)
    [] fetcher = "getSingleGameReceivingLeaders" -> getSingleGameReceivingLeaders(limit)
    [] fetcher = "getSingleGameDefensiveLeaders" -> getSingleGameDefensiveLeaders(limit)
    [] fetcher = "Object.prototype.toString" -> {"[object Undefined]"}

ScopeParams == {ABSENT, "career", "season", "game", "week"}

CategoryParams ==
  {ABSENT, "passing", "rushing", "receiving", "defense", "kicking", "toString"}

GameTypeParams == {ABSENT, "regular", "playoff", "preseason", "all"}

\* Season arguments of a game log: none, or a season of the dataset.
SeasonArgs == {undefined, 1999, 2001}

\* The [year] segment of a season or draft page URL.
YearParams ==
  {<<"1", "9", "9", "9">>, <<"2", "0", "0", "1">>, <<"2", "0", "0", "5">>,
   <<"2", "0", "0", "1", "x">>, <<"x", "1", "9", "9", "9">>, <<"a", "b", "c">>}

\* The [id] segment of a player or game page URL: the ids of the data and one
\* id that no row has.
PlayerIdParams == PlayerIds \cup {Len(players) + 1}

GameIdParams == GameIds \cup {Len(games) + 1}

\* Search terms typed into the players page.
SearchTerms == {<<"b">>, <<"A">>, <<"B", "O">>}

\* ── Game box score and StatTable ────────────────────────────────────────
\* SELECT pp.*, p.player_name FROM player_passing pp JOIN players p
\* WHERE pp.game_id = ? ORDER BY pp.yds DESC
getGamePassing(gameId) ==
  LET rows == {[player_id |-> r.player_id,
                player_name |-> players[r.player_id].player_name,
                com |-> r.com, att |-> r.att, yds |-> r.yds, td |-> r.td,
                int_thrown |-> r.int_thrown, rtg |-> r.rtg]
               : r \in {x \in player_passing : x.game_id = gameId}}
  IN OrderByLimit(rows, "yds DESC", Cardinality(rows))

\* SELECT pr.*, p.player_name FROM player_rushing pr JOIN players p
\* WHERE pr.game_id = ? ORDER BY pr.yds DESC
getGameRushing(gameId) ==
  LET rows == {[player_id |-> r.player_id,
                player_name |-> players[r.player_id].player_name,
                att |-> r.att, yds |-> r.yds, avg |-> r.avg, td |-> r.td, lg |-> r.lg]
               : r \in {x \in player_rushing : x.game_id = gameId}}
  IN OrderByLimit(rows, "yds DESC", Cardinality(rows))

\* The columns of GamePassingTable and of GameRushingTable.
GamePassingColumns ==
  << [key |-> "player_name", align |-> "left"], [key |-> "com", align |-> "right"],
     [key |-> "yds", align |-> "right"], [key |-> "td", align |-> "right"],
     [key |-> "int_thrown", align |-> "right"], [key |-> "rtg", align |-> "right"] >>

GameRushingColumns ==
  << [key |-> "player_name", align |-> "left"], [key |-> "att", align |-> "right"],
     [key |-> "yds", align |-> "right"], [key |-> "avg", align |-> "right"],
     [key |-> "td", align |-> "right"], [key |-> "lg", align |-> "right"] >>

\* typeof v === "string": of the columns above only the player's name.
StringKeys == {"player_name"}

\* a.localeCompare(b) as a sign: letters compare without regard to case
\* first; of two names equal but for case the lower-case one comes first.
localeCompare(a, b) ==
  LET fa == [i \in DOMAIN a |-> Fold(a[i])]
      fb == [i \in DOMAIN b |-> Fold(b[i])]
  IN IF a = b THEN 0
     ELSE IF fa = fb THEN (IF TextLeq(a, b) THEN 1 ELSE 0 - 1)
     ELSE IF TextLeq(fa, fb) THEN 0 - 1 ELSE 1

\* Mutant of Compare: without the three null tests, where null counts as 0
\* in the subtraction.
Compare_NullIsZero(a, b, sortCol, sortAsc) ==
  IF sortCol \in StringKeys
  THEN IF sortAsc THEN localeCompare(a[sortCol], b[sortCol])
       ELSE localeCompare(b[sortCol], a[sortCol])
  ELSE LET av == IF a[sortCol] = NULL THEN 0 ELSE a[sortCol]
           bv == IF b[sortCol] = NULL THEN 0 ELSE b[sortCol]
       IN IF sortAsc THEN av - bv ELSE bv - av

\* The comparison function given to sort. The names are strings and never
\* null; every other column is a number or null.
Compare(a, b, sortCol, sortAsc) ==
  IF sortCol \in StringKeys
  THEN IF sortAsc THEN localeCompare(a[sortCol], b[sortCol])
       ELSE localeCompare(b[sortCol], a[sortCol])
  ELSE LET av == a[sortCol]
           bv == b[sortCol]
       IN IF av = NULL /\ bv = NULL THEN 0
          ELSE IF av = NULL THEN 1
          ELSE IF bv = NULL THEN 0 - 1
          ELSE IF sortAsc THEN av - bv ELSE bv - av

\* [...data].sort(compare): the sort is stable, an element goes behind every
\* element already placed that does not compare greater.
RECURSIVE Sort(_, _, _)
Sort(data, sortCol, sortAsc) ==
  IF data = <<>> THEN <<>>
  ELSE LET n == Len(data)
           x == data[n]
           s == Sort(SubSeq(data, 1, n - 1), sortCol, sortAsc)
           after == {i \in DOMAIN s : Compare(s[i], x, sortCol, sortAsc) <= 0}
           k == IF after = {} THEN 0 ELSE CHOOSE i \in after : \A j \in after : j <= i
       IN SubSeq(s, 1, k) \o <<x>> \o SubSeq(s, k + 1, Len(s))

\* Mutant of skipKeys: the identifying columns only.
skipKeys_IdentifiersOnly ==
  {"season", "game_date", "result", "home_away", "game_id", "player_id"}

skipKeys ==
  {"avg", "rtg", "pct", "lg", "season", "game_date", "result", "home_away",
   "game_id", "player_id"}

RECURSIVE Plus(_)
Plus(nums) == IF nums = <<>> THEN 0 ELSE Head(nums) + Plus(Tail(nums))

\* The totals row, column by column: the label "Total", nothing
\* (totals[col.key] = null) or the sum of the column's numbers.
Totals(data, columns) ==
  [i \in DOMAIN columns |->
     LET col == columns[i]
         nums == SelectSeq([j \in DOMAIN data |-> IF col.key \in StringKeys THEN NULL
                                                   ELSE data[j][col.key]],
                           LAMBDA v : v # NULL)
     IN IF i = 1 /\ col.align \notin {"right", "center"}
        THEN [kind |-> "label", sum |-> 0]
        ELSE IF col.key \in skipKeys THEN [kind |-> "null", sum |-> 0]
        ELSE IF Len(nums) > 0 THEN [kind |-> "sum", sum |-> Plus(nums)]
        ELSE [kind |-> "null", sum |-> 0]]

\* setSortCol / setSortAsc in the click handler of a column header.
handleSort(t, key) ==
  IF t.sortCol = key
  THEN [t EXCEPT !.sortAsc = ~t.sortAsc, !.clicked = key]
  ELSE [t EXCEPT !.sortCol = key, !.sortAsc = FALSE, !.clicked = key]

\* ── Pages ───────────────────────────────────────────────────────────────
\* No page is being rendered.
NoRender ==
  [page |-> "none", param |-> 0, queries |-> <<>>, settled |-> <<>>,
   issued |-> <<>>, outcome |-> "none"]

\* StatsPage before it is mounted: the initial values of its useState calls.
StatsInit ==
  [mounted |-> FALSE, scope |-> "career", category |-> "passing",
   gameType |-> "regular", data |-> <<>>, loading |-> TRUE, inFlight |-> {},
   clicks |-> 0, settledCount |-> 0, failed |-> FALSE]

\* No StatTable is mounted.
NoTable == [data |-> <<>>, columns |-> <<>>, sortCol |-> "", sortAsc |-> FALSE, clicked |-> ""]

\* ── Initial state and actions ───────────────────────────────────────────
Init ==
  /\ player_passing = {}
  /\ player_rushing = {}
  /\ player_receiving = {}
  /\ player_defense = {}
  /\ player_sacks = {}
  /\ player_interceptions = {}
  /\ resp = NoResp
  /\ render = NoRender
  /\ stats = StatsInit
  /\ table = NoTable

\* Rows of the precomputed dataset (at most one per table, game and player).
LoadPassing ==
  \E g \in GameIds, p \in PlayerIds :
    /\ CanLoad /\ ~HasRow(player_passing, g, p)
    /\ player_passing' = player_passing \cup {PassingRow(g, p, StatLevel(g, p))}
    /\ UNCHANGED <<player_rushing, player_receiving, defenseTables, resp, ui>>

LoadRushing ==
  \E g \in GameIds, p \in PlayerIds :
    /\ CanLoad /\ ~HasRow(player_rushing, g, p)
    /\ player_rushing' = player_rushing \cup {RushingRow(g, p, StatLevel(g, p))}
    /\ UNCHANGED <<player_passing, player_receiving, defenseTables, resp, ui>>

LoadReceiving ==
  \E g \in GameIds, p \in PlayerIds :
    /\ CanLoad /\ ~HasRow(player_receiving, g, p)
    /\ player_receiving' = player_receiving \cup {ReceivingRow(g, p, StatLevel(g, p))}
    /\ UNCHANGED <<player_passing, player_rushing, defenseTables, resp, ui>>

LoadDefense ==
  \E g \in GameIds, p \in PlayerIds :
    /\ CanLoad /\ ~HasRow(player_defense, g, p)
    /\ player_defense' = player_defense \cup {DefenseRow(g, p, StatLevel(g, p))}
    /\ UNCHANGED <<offenseTables, player_sacks, player_interceptions, resp, ui>>

LoadSack ==
  \E g \in GameIds, p \in PlayerIds :
    /\ CanLoad /\ ~HasRow(player_sacks, g, p)
    /\ player_sacks' = player_sacks \cup {SackRow(g, p, StatLevel(g, p))}
    /\ UNCHANGED <<offenseTables, player_defense, player_interceptions, resp, ui>>

LoadInterception ==
  \E g \in GameIds, p \in PlayerIds :
    /\ CanLoad /\ ~HasRow(player_interceptions, g, p)
    /\ player_interceptions' = player_interceptions \cup {InterceptionRow(g, p, StatLevel(g, p))}
    /\ UNCHANGED <<offenseTables, player_defense, player_sacks, resp, ui>>

tables == <<offenseTables, defenseTables>>

\* A query returning one row (queryOne) for a player.
ServeOne(name, playerId, row) ==
  /\ resp = NoResp
  /\ resp' = [op |-> name, playerId |-> playerId, row |-> row]
  /\ UNCHANGED <<tables, ui>>

\* A query returning the rows of a player (query).
ServeList(name, playerId, results) ==
  /\ resp = NoResp
  /\ \E rows \in results : resp' = [op |-> name, playerId |-> playerId, rows |-> rows]
  /\ UNCHANGED <<tables, ui>>

\* A leaderboard query called with a limit.
ServeLeaders(name, limit, results) ==
  /\ resp = NoResp
  /\ \E rows \in results : resp' = [op |-> name, limit |-> limit, rows |-> rows]
  /\ UNCHANGED <<tables, ui>>

CallGetPlayerCareerDefense ==
  \E p \in PlayerIds : ServeOne("getPlayerCareerDefense", p, getPlayerCareerDefense(p))

CallGetPlayerSeasonDefense ==
  \E p \in PlayerIds : ServeList("getPlayerSeasonDefense", p, getPlayerSeasonDefense(p))

CallGetCareerDefensiveLeaders ==
  \E n \in 1..MaxLimit :
    ServeLeaders("getCareerDefensiveLeaders", n, getCareerDefensiveLeaders(n))

CallGetSeasonDefensiveRecords ==
  \E n \in 1..MaxLimit :
    ServeLeaders("getSeasonDefensiveRecords", n, getSeasonDefensiveRecords(n))

CallGetSingleGameDefensiveLeaders ==
  \E n \in 1..MaxLimit :
    ServeLeaders("getSingleGameDefensiveLeaders", n, getSingleGameDefensiveLeaders(n))

CallGetPlayerCareerPassing ==
  \E p \in PlayerIds : ServeOne("getPlayerCareerPassing", p, getPlayerCareerPassing(p))

CallGetPlayerCareerRushing ==
  \E p \in PlayerIds : ServeOne("getPlayerCareerRushing", p, getPlayerCareerRushing(p))

CallGetPlayerCareerReceiving ==
  \E p \in PlayerIds : ServeOne("getPlayerCareerReceiving", p, getPlayerCareerReceiving(p))

CallGetPlayerSeasonStats ==
  \E p \in PlayerIds : ServeList("getPlayerSeasonStats", p, getPlayerSeasonStats(p))

CallGetPlayerSeasonRushing ==
  \E p \in PlayerIds : ServeList("getPlayerSeasonRushing", p, getPlayerSeasonRushing(p))

CallGetPlayerSeasonReceiving ==
  \E p \in PlayerIds : ServeList("getPlayerSeasonReceiving", p, getPlayerSeasonReceiving(p))

CallGetPlayerGameLog ==
  \E p \in PlayerIds, seasonArg \in SeasonArgs :
    /\ resp = NoResp
    /\ \E rows \in getPlayerGameLog(p, seasonArg) :
         resp' = [op |-> "getPlayerGameLog", playerId |-> p, season |-> seasonArg,
                  rows |-> rows]
    /\ UNCHANGED <<tables, ui>>

CallSearchPlayers ==
  \E q \in SearchTerms, n \in 1..MaxLimit :
    /\ resp = NoResp
    /\ \E rows \in searchPlayers(q, n) :
         resp' = [op |-> "searchPlayers", q |-> q, limit |-> n, rows |-> rows]
    /\ UNCHANGED <<tables, ui>>

CallGetPlayersWithStats ==
  \E n \in 1..MaxLimit, offset \in 0..1 :
    /\ resp = NoResp
    /\ \E rows \in getPlayersWithStats(n, offset) :
         resp' = [op |-> "getPlayersWithStats", limit |-> n, offset |-> offset,
                  rows |-> rows]
    /\ UNCHANGED <<tables, ui>>

\* The season page's passing leaders, for a season with or without games.
CallGetSeasonPassingLeaders ==
  \E year \in {1999, 2001, 2005} :
    /\ resp = NoResp
    /\ \E rows \in getSeasonPassingLeaders(year) :
         resp' = [op |-> "getSeasonPassingLeaders", year |-> year, rows |-> rows]
    /\ UNCHANGED <<tables, ui>>

\* The nine passing / rushing / receiving leaderboards, called directly.
OffenseLeaderboards ==
  {"getCareerPassingLeaders", "getCareerRushingLeaders", "getCareerReceivingLeaders",
   "getSeasonPassingRecords", "getSeasonRushingRecords", "getSeasonReceivingRecords",
   "getSingleGamePassingLeaders", "getSingleGameRushingLeaders",
   "getSingleGameReceivingLeaders"}

CallOffenseLeaderboard ==
  \E name \in OffenseLeaderboards, n \in 1..MaxLimit :
    ServeLeaders(name, n, CallFetcher(name, n, "regular"))

SeasonPageQueries ==
  <<"getSeasonGames", "getSeasonTeamStats", "getSeasonPassingLeaders",
    "getSeasonRushingLeaders", "getSeasonReceivingLeaders">>

\* seasons/[year]: the five queries are issued together once the year parsed.
SeasonDetailPage ==
  \E yearStr \in YearParams :
    LET year == parseInt(yearStr, 10)
    IN /\ resp = NoResp
       /\ IF isNaN(year)
          THEN resp' = [op |-> "SeasonDetailPage", year |-> yearStr,
                        outcome |-> "notFound", queries |-> <<>>]
          ELSE \E rawGames \in getSeasonGames(year),
                  passLeaders \in getSeasonPassingLeaders(year),
                  rushLeaders \in getSeasonRushingLeaders(year),
                  recLeaders \in getSeasonReceivingLeaders(year) :
                 IF Len(rawGames) = 0
                 THEN resp' = [op |-> "SeasonDetailPage", year |-> yearStr,
                               outcome |-> "notFound", queries |-> SeasonPageQueries]
                 ELSE resp' = [op |-> "SeasonDetailPage", year |-> yearStr,
                               outcome |-> "page", queries |-> SeasonPageQueries,
                               rawGames |-> rawGames,
                               regularGames |-> FilterByGameType(rawGames, "regular"),
                               playoffGames |-> FilterByGameType(rawGames, "playoff"),
                               preseasonGames |-> FilterByGameType(rawGames, "preseason"),
                               passLeaders |-> passLeaders, rushLeaders |-> rushLeaders,
                               recLeaders |-> recLeaders]
       /\ UNCHANGED <<tables, ui>>

\* draft/[year]
DraftYearPage ==
  \E yearStr \in YearParams :
    LET yearNum == parseInt(yearStr, 10)
    IN /\ resp = NoResp
       /\ IF isNaN(yearNum)
          THEN resp' = [op |-> "DraftYearPage", year |-> yearStr,
                        outcome |-> "notFound", queries |-> <<>>]
          ELSE \E picks \in getDraftByYear(yearNum) :
                 resp' = [op |-> "DraftYearPage", year |-> yearStr,
                          outcome |-> IF Len(picks) = 0 THEN "notFound" ELSE "page",
                          queries |-> <<"getDraftByYear">>, picks |-> picks]
       /\ UNCHANGED <<tables, ui>>

PlayerPageQueries ==
  <<"getPlayerCareerPassing", "getPlayerCareerRushing", "getPlayerCareerReceiving",
    "getPlayerSeasonStats", "getPlayerSeasonRushing", "getPlayerSeasonReceiving",
    "getPlayerGameLog", "getPlayerDraftInfo">>

\* players/[id]: getPlayer first, then the eight queries together.
PlayerProfilePage ==
  \E id \in PlayerIdParams :
    LET player == getPlayer(id)
    IN /\ resp = NoResp
       /\ IF player = null
          THEN resp' = [op |-> "PlayerProfilePage", id |-> id, outcome |-> "notFound",
                        queries |-> <<"getPlayer">>, player |-> player]
          ELSE \E rawSeasonPassing \in getPlayerSeasonStats(id),
                  rawSeasonRushing \in getPlayerSeasonRushing(id),
                  rawSeasonReceiving \in getPlayerSeasonReceiving(id),
                  rawGameLog \in getPlayerGameLog(id, undefined),
                  draftInfo \in getPlayerDraftInfo(id) :
                 resp' = [op |-> "PlayerProfilePage", id |-> id, outcome |-> "page",
                          queries |-> <<"getPlayer">> \o PlayerPageQueries,
                          player |-> player,
                          careerPassing |-> getPlayerCareerPassing(id),
                          careerRushing |-> getPlayerCareerRushing(id),
                          careerReceiving |-> getPlayerCareerReceiving(id),
                          seasonPassing |-> rawSeasonPassing,
                          seasonRushing |-> rawSeasonRushing,
                          seasonReceiving |-> rawSeasonReceiving,
                          gameLog |-> rawGameLog, draftInfo |-> draftInfo]
       /\ UNCHANGED <<tables, ui>>

\* The result badge of the game page header.
ResultBadge(game) ==
  IF game.result = "W" THEN "WIN" ELSE IF game.result = "L" THEN "LOSS" ELSE "TIE"

GamePageQueries ==
  <<"getGameTeamStats", "getScoringPlays", "getGamePassing", "getGameRushing",
    "getGameReceiving", "getGameDefense", "getGameSacks", "getGameInterceptions">>

\* games/[id]: getGame first, then the eight box-score queries together; the
\* box-score lists are rendered as the queries return them.
GamePage ==
  \E id \in GameIdParams :
    LET game == getGame(id)
    IN /\ resp = NoResp
       /\ resp' = [op |-> "GamePage", id |-> id,
                    outcome |-> IF game = null THEN "notFound" ELSE "page",
                    queries |-> IF game = null THEN <<"getGame">>
                                ELSE <<"getGame">> \o GamePageQueries,
                    game |-> game,
                    badge |-> IF game = null THEN "" ELSE ResultBadge(game)]
       /\ UNCHANGED <<tables, ui>>

\* ── The fan-out of a page render ────────────────────────────────────────
\* Mutant of PromiseAll: waits for every promise and fulfils whatever their
\* outcome (Promise.allSettled).
PromiseAll_AllSettled(settled) ==
  IF \A i \in DOMAIN settled : settled[i] # "pending" THEN "fulfilled" ELSE "pending"

\* await Promise.all([...]): rejected as soon as one promise is rejected,
\* fulfilled once every promise is fulfilled.
PromiseAll(settled) ==
  IF \E i \in DOMAIN settled : settled[i] = "rejected" THEN "rejected"
  ELSE IF \A i \in DOMAIN settled : settled[i] = "fulfilled" THEN "fulfilled"
  ELSE "pending"

\* The array passed to Promise.all: every query function is called, which
\* issues its query, before the page awaits.
IssueFanOut(page, param, qs) ==
  [page |-> page, param |-> param, queries |-> qs,
   settled |-> [i \in DOMAIN qs |-> "pending"],
   issued |-> [i \in DOMAIN qs |-> 1], outcome |-> "awaiting"]

\* A render that ended before the fan-out.
EndedEarly(page, param, outcome) ==
  [page |-> page, param |-> param, queries |-> <<>>, settled |-> <<>>,
   issued |-> <<>>, outcome |-> outcome]

\* players/[id] up to the await of Promise.all: getPlayer is awaited first and
\* may itself fail.
BeginPlayerRender ==
  \E id \in PlayerIdParams, ok \in BOOLEAN :
    /\ render = NoRender
    /\ render' = IF ~ok THEN EndedEarly("player", id, "error")
                 ELSE IF getPlayer(id) = null THEN EndedEarly("player", id, "notFound")
                 ELSE IssueFanOut("player", id, PlayerPageQueries)
    /\ UNCHANGED <<tables, resp, stats, table>>

\* games/[id] up to the await of Promise.all.
BeginGameRender ==
  \E id \in GameIdParams, ok \in BOOLEAN :
    /\ render = NoRender
    /\ render' = IF ~ok THEN EndedEarly("game", id, "error")
                 ELSE IF getGame(id) = null THEN EndedEarly("game", id, "notFound")
                 ELSE IssueFanOut("game", id, GamePageQueries)
    /\ UNCHANGED <<tables, resp, stats, table>>

\* seasons/[year] up to the await of Promise.all.
BeginSeasonRender ==
  \E yearStr \in YearParams :
    /\ render = NoRender
    /\ render' = IF isNaN(parseInt(yearStr, 10))
                 THEN EndedEarly("season", yearStr, "notFound")
                 ELSE IssueFanOut("season", yearStr, SeasonPageQueries)
    /\ UNCHANGED <<tables, resp, stats, table>>

\* What the page does after the await returned the array of results.
Compose(page, param) ==
  IF page = "season" /\ \A rawGames \in getSeasonGames(parseInt(param, 10)) :
                          Len(rawGames) = 0
  THEN "notFound"
  ELSE "page"

\* One query of the fan-out completes, with rows or with a data-store error;
\* the page resumes when this settles the Promise.all it awaits.
SettleQuery ==
  \E i \in DOMAIN render.settled, r \in {"fulfilled", "rejected"} :
    /\ render.settled[i] = "pending"
    /\ LET settled == [render.settled EXCEPT ![i] = r]
           all == PromiseAll(settled)
       IN render' =
            [render EXCEPT
               !.settled = settled,
               !.outcome = IF render.outcome # "awaiting" THEN @
                           ELSE IF all = "pending" THEN "awaiting"
                           ELSE IF all = "rejected" THEN "error"
                           ELSE Compose(render.page, render.param)]
    /\ UNCHANGED <<tables, resp, stats, table>>

\* ── StatTable on the game page ──────────────────────────────────────────
\* A mounted table: its props, the useState values sortCol and sortAsc
\* (defaultSort, defaultAsc = false), and the header clicked last.
MountTable(data, columns, defaultSort) ==
  /\ table = NoTable
  /\ resp = NoResp
  /\ table' = [data |-> data, columns |-> columns, sortCol |-> defaultSort,
               sortAsc |-> FALSE, clicked |-> ""]
  /\ UNCHANGED <<tables, resp, render, stats>>

\* {saintsPassers.length > 0 && <GamePassingTable data={saintsPassers} />}:
\* the passing lines of a game; the players of the data are of one team.
MountGamePassingTable ==
  \E id \in GameIds : \E data \in getGamePassing(id) :
    Len(data) > 0 /\ MountTable(data, GamePassingColumns, "yds")

\* {saintsRushers.length > 0 && <GameRushingTable data={saintsRushers} />}
MountGameRushingTable ==
  \E id \in GameIds : \E data \in getGameRushing(id) :
    Len(data) > 0 /\ MountTable(data, GameRushingColumns, "yds")

\* A click on a column header (no column sets sortable: false).
ClickHeader ==
  \E i \in DOMAIN table.columns :
    /\ table' = handleSort(table, table.columns[i].key)
    /\ UNCHANGED <<tables, resp, render, stats>>

\* ── The leaderboard page (StatsPage) ────────────────────────────────────
\* The body of a 200 response of /api/leaders for a selection of the tabs.
LeadersResponses(scope, category, gameType) ==
  CallFetcher(Lookup(scope, category), ApiLimit,
              IF gameType \in VALID_GAME_TYPES THEN gameType ELSE "regular")

\* useEffect(.., [scope, category, gameType]): setLoading(true) and a fetch
\* for the selection of the render the effect belongs to.
RunEffect(s) ==
  [s EXCEPT !.loading = TRUE,
            !.inFlight = @ \cup {[id |-> Cardinality(s.inFlight) + s.settledCount + 1,
                                  scope |-> s.scope, category |-> s.category,
                                  gameType |-> s.gameType]}]

\* The page is mounted and its effect runs for the initial selection; the
\* dataset does not change while the page is open.
StatsMount ==
  /\ ~stats.mounted
  /\ resp = NoResp
  /\ stats' = RunEffect([stats EXCEPT !.mounted = TRUE])
  /\ UNCHANGED <<tables, resp, render, table>>

\* A click on a tab: a state setter with a new value re-renders and re-runs
\* the effect; with the current value nothing happens.
SelectTab(field, value) ==
  /\ stats.mounted
  /\ stats.clicks < MaxClicks
  /\ stats[field] # value
  /\ stats' = RunEffect([stats EXCEPT ![field] = value, !.clicks = @ + 1])
  /\ UNCHANGED <<tables, resp, render, table>>

SetScope == \E s \in {"career", "season", "game"} : SelectTab("scope", s)

SetCategory ==
  \E c \in {"passing", "rushing", "receiving", "defense"} : SelectTab("category", c)

SetGameType == \E gt \in {"regular", "playoff", "preseason"} : SelectTab("gameType", gt)

\* .then((r) => r.json()).then((d) => { setData(d); setLoading(false); })
\* for any one of the requests in flight.
ResponseArrives ==
  \E r \in stats.inFlight : \E d \in LeadersResponses(r.scope, r.category, r.gameType) :
    /\ stats' = [stats EXCEPT !.data = d, !.loading = FALSE,
                              !.inFlight = @ \ {r}, !.settledCount = @ + 1]
    /\ UNCHANGED <<tables, resp, render, table>>

\* .catch(() => setLoading(false)) for a request that failed.
RequestFails ==
  \E r \in stats.inFlight :
    /\ stats' = [stats EXCEPT !.loading = FALSE, !.inFlight = @ \ {r},
                              !.settledCount = @ + 1, !.failed = TRUE]
    /\ UNCHANGED <<tables, resp, render, table>>

\* The leaderboard just answered is computed a second time with the same
\* limit over the unchanged tables.
CallLeaderboardAgain ==
  /\ resp.op \in OffenseLeaderboards \cup
                   {"getCareerDefensiveLeaders", "getSeasonDefensiveRecords",
                    "getSingleGameDefensiveLeaders"}
  /\ \E rows \in CallFetcher(resp.op, resp.limit, "regular") :
       resp' = [op |-> "again", name |-> resp.op, limit |-> resp.limit,
                first |-> resp.rows, second |-> rows]
  /\ UNCHANGED <<tables, ui>>

\* GET /api/leaders?scope=..&category=..&gameType=..
GET ==
  \E scopeParam \in ScopeParams, categoryParam \in CategoryParams,
     gameTypeParam \in GameTypeParams :
    LET scope == IF scopeParam = ABSENT THEN "career" ELSE scopeParam
        category == IF categoryParam = ABSENT THEN "passing" ELSE categoryParam
        rawGameType == IF gameTypeParam = ABSENT THEN "regular" ELSE gameTypeParam
        gameType == IF rawGameType \in VALID_GAME_TYPES THEN rawGameType ELSE "regular"
        fetcher == Lookup(scope, category)
    IN /\ resp = NoResp
       /\ IF fetcher = "undefined"
          THEN resp' = [op |-> "GET", scope |-> scope, category |-> category,
                        gameType |-> gameType, status |-> 400, data |-> <<>>,
                        queries |-> <<>>, gameTypeParam |-> gameTypeParam]
          ELSE \E data \in CallFetcher(fetcher, ApiLimit, gameType) :
                 resp' = [op |-> "GET", scope |-> scope, category |-> category,
                          gameType |-> gameType, status |-> 200, data |-> data,
                          queries |-> QueriesOf(fetcher),
                          gameTypeParam |-> gameTypeParam]
       /\ UNCHANGED <<tables, ui>>

LoadDefenseTables == LoadDefense \/ LoadSack \/ LoadInterception

LoadOffenseTables == LoadPassing \/ LoadRushing \/ LoadReceiving

NextDefense ==
  \/ LoadDefenseTables
  \/ CallGetPlayerCareerDefense
  \/ CallGetPlayerSeasonDefense
  \/ CallGetCareerDefensiveLeaders
  \/ CallGetSeasonDefensiveRecords
  \/ CallGetSingleGameDefensiveLeaders

NextOffense ==
  \/ LoadOffenseTables
  \/ CallGetPlayerCareerPassing
  \/ CallGetPlayerCareerRushing
  \/ CallGetPlayerCareerReceiving
  \/ CallGetPlayerSeasonStats
  \/ CallGetPlayerSeasonRushing
  \/ CallGetPlayerSeasonReceiving
  \/ CallOffenseLeaderboard
  \/ CallSearchPlayers
  \/ CallGetPlayersWithStats
  \/ CallGetSeasonPassingLeaders

NextApi == LoadDefenseTables \/ LoadOffenseTables \/ GET

\* Each family of queries over the tables it reads.
NextQueries ==
  \/ (offenseTables = <<{}, {}, {}>> /\ NextDefense)
  \/ (defenseTables = <<{}, {}, {}>> /\ NextOffense)

NextPages ==
  \/ LoadOffenseTables
  \/ SeasonDetailPage
  \/ DraftYearPage
  \/ PlayerProfilePage
  \/ GamePage

NextRepeat == NextQueries \/ CallLeaderboardAgain

NextGameLog == LoadDefenseTables \/ LoadOffenseTables \/ CallGetPlayerGameLog

NextRender == BeginPlayerRender \/ BeginGameRender \/ BeginSeasonRender \/ SettleQuery

NextTable ==
  \/ (table = NoTable /\ LoadOffenseTables)
  \/ MountGamePassingTable
  \/ MountGameRushingTable
  \/ ClickHeader

NextGameType == LoadPassing \/ LoadSack \/ GET

NextStats ==
  \/ (~stats.mounted /\ LoadPassing)
  \/ StatsMount
  \/ SetScope \/ SetCategory \/ SetGameType
  \/ ResponseArrives
  \/ RequestFails

Next ==
  \/ NextDefense \/ NextOffense \/ GET \/ CallGetPlayerGameLog \/ CallLeaderboardAgain
  \/ SeasonDetailPage \/ DraftYearPage \/ PlayerProfilePage \/ GamePage
  \/ NextRender \/ NextTable \/ NextStats

\* The defensive queries over the three defense tables.
SpecDefense == Init /\ [][NextDefense]_vars

\* The passing / rushing / receiving queries over their three tables.
SpecOffense == Init /\ [][NextOffense]_vars

\* The leaderboard endpoint over all six tables.
SpecApi == Init /\ [][NextApi]_vars

\* The defensive queries and the passing / rushing / receiving queries, each
\* family over its own three tables.
SpecQueries == Init /\ [][NextQueries]_vars

\* The season, draft-year, player and game pages over the passing, rushing
\* and receiving tables.
SpecPages == Init /\ [][NextPages]_vars

\* The queries, and a leaderboard asked for twice in a row.
SpecRepeat == Init /\ [][NextRepeat]_vars

\* The player game log over all six tables.
SpecGameLog == Init /\ [][NextGameLog]_vars

\* The renders of the player, game and season pages, query by query.
SpecRender == Init /\ [][NextRender]_vars

\* A StatTable of the game page over the passing, rushing and receiving tables.
SpecTable == Init /\ [][NextTable]_vars

\* The leaderboard endpoint over the passing and the sacks table.
SpecGameType == Init /\ [][NextGameType]_vars

\* The leaderboard page over the passing table.
SpecStats == Init /\ [][NextStats]_vars

Spec == Init /\ [][Next]_vars

\* ── Reference quantities used by the properties ─────────────────────────
\* The value of column col in the row of (g, p), 0 without a row.
CellValue(rows, g, p, col) ==
  IF HasRow(rows, g, p)
  THEN (CHOOSE r \in rows : r.game_id = g /\ r.player_id = p)[col]
  ELSE 0

\* Arithmetic sum of col over the rows of player p in the games gs.
RECURSIVE SumOverGames(_, _, _, _)
SumOverGames(rows, p, gs, col) ==
  IF gs = {} THEN 0
  ELSE LET g == CHOOSE x \in gs : TRUE
       IN CellValue(rows, g, p, col) + SumOverGames(rows, p, gs \ {g}, col)

\* The games in which player p has a row in the table.
GamesOf(rows, p) == {g \in GameIds : HasRow(rows, g, p)}

RegularGames == {g \in GameIds : games[g].game_type = "regular"}

GamesInSeason(s) == {g \in GameIds : games[g].season = s}

DefenseSeasonsOf(p) ==
  {games[g].season : g \in GamesOf(player_defense, p) \cup GamesOf(player_sacks, p)
                           \cup GamesOf(player_interceptions, p)}

Least(S) == CHOOSE x \in S : \A y \in S : x <= y

Greatest(S) == CHOOSE x \in S : \A y \in S : x >= y

RowsOf(seq) == {seq[i] : i \in DOMAIN seq}

\* ── C1 ──────────────────────────────────────────────────────────────────
\* C1: the career-defense summary of a player with any defensive row reports
\* first_season = the least season over the player's rows of all three
\* defense tables together, and last_season = the greatest.
C1_CareerDefenseSeasonRange ==
  (resp.op = "getPlayerCareerDefense" /\ DefenseSeasonsOf(resp.playerId) # {}) =>
    /\ resp.row.first_season = Least(DefenseSeasonsOf(resp.playerId))
    /\ resp.row.last_season = Greatest(DefenseSeasonsOf(resp.playerId))

\* ── C2 ──────────────────────────────────────────────────────────────────
\* C2: every row of the season-scope defensive leaderboard carries, for its
\* (player, season), the regular-season sums of all three tables at once:
\* tkl/tfl/qh/pd_count/ff from player_defense, sacks from player_sacks and
\* int_count from player_interceptions, 0 for a table without rows.
C2_SeasonDefenseMergesAllTables ==
  resp.op = "getSeasonDefensiveRecords" =>
    \A row \in RowsOf(resp.rows) :
      LET gs == RegularGames \cap GamesInSeason(row.season)
          p == row.player_id
      IN /\ row.tkl = SumOverGames(player_defense, p, gs, "tkl")
         /\ row.tfl = SumOverGames(player_defense, p, gs, "tfl")
         /\ row.qh = SumOverGames(player_defense, p, gs, "qh")
         /\ row.pd_count = SumOverGames(player_defense, p, gs, "pd")
         /\ row.ff = SumOverGames(player_defense, p, gs, "ff")
         /\ row.sacks = SumOverGames(player_sacks, p, gs, "sacks")
         /\ row.int_count = SumOverGames(player_interceptions, p, gs, "int_count")

\* ── C3 ──────────────────────────────────────────────────────────────────
\* Player x is linked, has exactly one row in player_sacks and no row in
\* player_defense or player_interceptions.
OnlyOneSackRow(x) ==
  /\ Linked(x)
  /\ Cardinality(GamesOf(player_sacks, x)) = 1
  /\ GamesOf(player_defense, x) = {}
  /\ GamesOf(player_interceptions, x) = {}

TheSackGame(x) == CHOOSE g \in GameIds : HasRow(player_sacks, g, x)

\* The limit does not cut the career-defense leaderboard.
CareerDefenseUncut ==
  /\ resp.op = "getCareerDefensiveLeaders"
  /\ resp.limit >= Cardinality({q \in AllDef : Linked(q)})

AppearsOnceWithSacks(x, n) ==
  /\ Cardinality({i \in DOMAIN resp.rows : resp.rows[i].player_id = x}) = 1
  /\ \A row \in RowsOf(resp.rows) :
       row.player_id = x => (row.tkl = 0 /\ row.int_count = 0 /\ row.sacks = n)

\* C3 as stated: a linked player whose only defensive row is one player_sacks
\* row, in any game, appears exactly once in the uncut career-defense
\* leaderboard with tkl = 0, int_count = 0 and sacks = that row's sacks.
C3_AnyGameSackRowIsReported ==
  CareerDefenseUncut =>
    \A x \in PlayerIds :
      OnlyOneSackRow(x) =>
        AppearsOnceWithSacks(x, CellValue(player_sacks, TheSackGame(x), x, "sacks"))

\* C3 amended: the same, for a sack row of a regular-season game.
C3_UnionCompleteness ==
  CareerDefenseUncut =>
    \A x \in PlayerIds :
      (OnlyOneSackRow(x) /\ TheSackGame(x) \in RegularGames) =>
        AppearsOnceWithSacks(x, CellValue(player_sacks, TheSackGame(x), x, "sacks"))

\* A sack-only player of a regular-season game is listed next to a player who
\* has tackles.
C3_Witness ==
  /\ CareerDefenseUncut
  /\ Len(resp.rows) = 2
  /\ \E x \in PlayerIds :
       /\ OnlyOneSackRow(x) /\ TheSackGame(x) \in RegularGames
       /\ \E i \in DOMAIN resp.rows : resp.rows[i].player_id = x /\ resp.rows[i].sacks > 0

\* ── C4 ──────────────────────────────────────────────────────────────────
DefensiveLeaderboards ==
  {"getCareerDefensiveLeaders", "getSeasonDefensiveRecords",
   "getSingleGameDefensiveLeaders"}

\* C4: in every defensive leaderboard no row belongs to a player without a
\* row in any of the three defense tables, and the row of a player whose only
\* defensive rows are interceptions has tkl = 0, sacks = 0 and int_count > 0.
C4_DefenseRowsHaveASource ==
  resp.op \in DefensiveLeaderboards =>
    \A row \in RowsOf(resp.rows) :
      /\ row.player_id \in AllDef
      /\ (GamesOf(player_defense, row.player_id) = {}
          /\ GamesOf(player_sacks, row.player_id) = {})
         => (row.tkl = 0 /\ row.sacks = 0 /\ row.int_count > 0)

\* ── C5 ──────────────────────────────────────────────────────────────────
\* Sum of the three tables' distinct-game counts of player p over the games gs.
ThreeTableGames(p, gs) ==
  Cardinality(GamesOf(player_defense, p) \cap gs)
  + Cardinality(GamesOf(player_sacks, p) \cap gs)
  + Cardinality(GamesOf(player_interceptions, p) \cap gs)

\* C5: games of a career or season defensive row is the sum of the three
\* per-table distinct-game counts of the rows the query counts (regular-season
\* games in the leaderboards, every game in the per-player season summary).
C5_GamesIsSumOfThreeCounts ==
  /\ resp.op = "getCareerDefensiveLeaders" =>
       \A row \in RowsOf(resp.rows) :
         row.games = ThreeTableGames(row.player_id, RegularGames)
  /\ resp.op = "getSeasonDefensiveRecords" =>
       \A row \in RowsOf(resp.rows) :
         row.games = ThreeTableGames(row.player_id,
                                     RegularGames \cap GamesInSeason(row.season))
  /\ resp.op = "getPlayerSeasonDefense" =>
       \A row \in RowsOf(resp.rows) :
         row.games = ThreeTableGames(resp.playerId, GamesInSeason(row.season))

\* ── C6 ──────────────────────────────────────────────────────────────────
GamesOfType(t) == {g \in GameIds : games[g].game_type = t}

GameOfDate(d) == CHOOSE g \in GameIds : games[g].game_date = d

OffenseTable(category) ==
  CASE category = "passing" -> player_passing
    [] category = "rushing" -> player_rushing
    [] category = "receiving" -> player_receiving

\* Row of a leaderboard response of the given scope and category is computed
\* from the stat rows of the games gs and of no other game.
RowComputedFrom(scope, category, row, gs) ==
  LET p == row.player_id
      of == IF scope = "season" THEN gs \cap GamesInSeason(row.season) ELSE gs
  IN IF scope = "game"
     THEN GameOfDate(row.game_date) \in gs
     ELSE IF category = "defense"
     THEN /\ row.tkl \in {0, SumOverGames(player_defense, p, of, "tkl")}
          /\ row.sacks \in {0, SumOverGames(player_sacks, p, of, "sacks")}
          /\ row.int_count \in {0, SumOverGames(player_interceptions, p, of, "int_count")}
          /\ row.games <= ThreeTableGames(p, of)
     ELSE /\ row.yds = SumOverGames(OffenseTable(category), p, of, "yds")
          /\ row.td = SumOverGames(OffenseTable(category), p, of, "td")
          /\ row.games = Cardinality(GamesOf(OffenseTable(category), p) \cap of)

\* C6: a leaderboard response to a request with gameType=playoff (or
\* preseason) is computed from the stat rows of playoff (preseason) games only.
C6_RequestedGameTypeIsHonoured ==
  (resp.op = "GET" /\ resp.status = 200 /\ resp.queries # <<>>
     /\ resp.gameType # "regular") =>
    \A row \in RowsOf(resp.data) :
      RowComputedFrom(resp.scope, resp.category, row, GamesOfType(resp.gameType))

\* ── C7 ──────────────────────────────────────────────────────────────────
\* The games of the rows a step adds to the dataset.
LoadedGames ==
  {r.game_id : r \in player_passing' \ player_passing}
  \cup {r.game_id : r \in player_rushing' \ player_rushing}
  \cup {r.game_id : r \in player_receiving' \ player_receiving}
  \cup {r.game_id : r \in player_defense' \ player_defense}
  \cup {r.game_id : r \in player_sacks' \ player_sacks}
  \cup {r.game_id : r \in player_interceptions' \ player_interceptions}

\* What the endpoint may answer for (scope, category) with the default game type.
DefaultLeaderboard(scope, category) ==
  CallFetcher(fetchers[scope][category], ApiLimit, "regular")

LeaderboardUnchanged(scope, category) ==
  DefaultLeaderboard(scope, category)' = DefaultLeaderboard(scope, category)

\* C7: with the default game type, adding a stat row of a playoff or
\* preseason game changes the output of none of the twelve leaderboards.
C7_DefaultCountsRegularOnly ==
  [][(LoadedGames # {} /\ LoadedGames \cap RegularGames = {}) =>
       \A scope \in DOMAIN fetchers : \A category \in DOMAIN fetchers[scope] :
         LeaderboardUnchanged(scope, category)]_vars

\* The same for the eleven leaderboards other than career defense.
C7_ExceptCareerDefense ==
  [][(LoadedGames # {} /\ LoadedGames \cap RegularGames = {}) =>
       \A scope \in DOMAIN fetchers : \A category \in DOMAIN fetchers[scope] :
         (scope # "career" \/ category # "defense") =>
           LeaderboardUnchanged(scope, category)]_vars

\* ── C8 ──────────────────────────────────────────────────────────────────
\* The career summary row of player p over the table rows counts the
\* regular-season rows only (a sum over no rows read as 0).
CareerRowCountsRegularOnly(row, rows, p) ==
  LET gs == GamesOf(rows, p) \cap RegularGames
  IN /\ COALESCE(row.yds, 0) = SumOverGames(rows, p, gs, "yds")
     /\ COALESCE(row.td, 0) = SumOverGames(rows, p, gs, "td")
     /\ row.games = Cardinality(gs)
     /\ gs # {} => /\ row.first_season = Least({games[g].season : g \in gs})
                   /\ row.last_season = Greatest({games[g].season : g \in gs})

\* C8: every per-player summary counts only the rows of regular-season games,
\* so a preseason or playoff row does not show in its sums, games count or
\* first/last season, nor as a season of the per-season totals.
C8_SummariesCountRegularOnly ==
  /\ resp.op = "getPlayerCareerPassing" =>
       CareerRowCountsRegularOnly(resp.row, player_passing, resp.playerId)
  /\ resp.op = "getPlayerCareerRushing" =>
       CareerRowCountsRegularOnly(resp.row, player_rushing, resp.playerId)
  /\ resp.op = "getPlayerCareerReceiving" =>
       CareerRowCountsRegularOnly(resp.row, player_receiving, resp.playerId)
  /\ resp.op = "getPlayerSeasonStats" =>
       \A row \in RowsOf(resp.rows) :
         LET gs == RegularGames \cap GamesInSeason(row.season)
         IN /\ row.pass_yds = SumOverGames(player_passing, resp.playerId, gs, "yds")
            /\ row.pass_games = Cardinality(GamesOf(player_passing, resp.playerId) \cap gs)
  /\ resp.op = "getPlayerSeasonRushing" =>
       \A row \in RowsOf(resp.rows) :
         LET gs == RegularGames \cap GamesInSeason(row.season)
         IN /\ row.rush_yds = SumOverGames(player_rushing, resp.playerId, gs, "yds")
            /\ row.rush_games = Cardinality(GamesOf(player_rushing, resp.playerId) \cap gs)
  /\ resp.op = "getPlayerSeasonReceiving" =>
       \A row \in RowsOf(resp.rows) :
         LET gs == RegularGames \cap GamesInSeason(row.season)
         IN /\ row.rec_yds = SumOverGames(player_receiving, resp.playerId, gs, "yds")
            /\ row.rec_games = Cardinality(GamesOf(player_receiving, resp.playerId) \cap gs)

\* ── C9 ──────────────────────────────────────────────────────────────────
\* C9: games of a career passing result is the number of distinct games among
\* the player's passing rows that the query counts (every passing row in
\* getPlayerCareerPassing, the regular-season ones in getCareerPassingLeaders);
\* rushing and receiving rows do not enter it.
C9_PassingGamesAreDistinctPassingGames ==
  /\ resp.op = "getPlayerCareerPassing" =>
       resp.row.games = Cardinality(GamesOf(player_passing, resp.playerId))
  /\ resp.op = "getCareerPassingLeaders" =>
       \A row \in RowsOf(resp.rows) :
         row.games = Cardinality(GamesOf(player_passing, row.player_id) \cap RegularGames)

\* A career passing summary of a player who also has a rushing or receiving
\* row in a game without a passing row.
C9_Witness ==
  /\ resp.op = "getPlayerCareerPassing"
  /\ resp.row.games = 1
  /\ (GamesOf(player_rushing, resp.playerId) \cup GamesOf(player_receiving, resp.playerId))
       \ GamesOf(player_passing, resp.playerId) # {}

\* ── C10 ─────────────────────────────────────────────────────────────────
\* The counters of a career (season) leaderboard row equal the sums over the
\* counted rows: the player's rows in regular-season games (of that season).
CountersAreSums(row, rows, gs, cols) ==
  /\ \A col \in cols : row[col] = SumOverGames(rows, row.player_id, gs, col)
  /\ row.games = Cardinality(GamesOf(rows, row.player_id) \cap gs)

PassingCounters == {"att", "com", "yds", "td", "int_thrown"}

RushingCounters == {"att", "yds", "td"}

ReceivingCounters == {"rec", "yds", "td"}

\* C10: each summed counter of a career or season passing / rushing /
\* receiving leaderboard row is the arithmetic sum of that counter over
\* exactly the counted per-game rows of that player (and season).
C10_CountersAreSumsOfCountedRows ==
  /\ resp.op = "getCareerPassingLeaders" =>
       \A row \in RowsOf(resp.rows) :
         CountersAreSums(row, player_passing, RegularGames, PassingCounters)
  /\ resp.op = "getCareerRushingLeaders" =>
       \A row \in RowsOf(resp.rows) :
         CountersAreSums(row, player_rushing, RegularGames, RushingCounters)
  /\ resp.op = "getCareerReceivingLeaders" =>
       \A row \in RowsOf(resp.rows) :
         CountersAreSums(row, player_receiving, RegularGames, ReceivingCounters)
  /\ resp.op = "getSeasonPassingRecords" =>
       \A row \in RowsOf(resp.rows) :
         CountersAreSums(row, player_passing,
                         RegularGames \cap GamesInSeason(row.season), PassingCounters)
  /\ resp.op = "getSeasonRushingRecords" =>
       \A row \in RowsOf(resp.rows) :
         CountersAreSums(row, player_rushing,
                         RegularGames \cap GamesInSeason(row.season), RushingCounters)
  /\ resp.op = "getSeasonReceivingRecords" =>
       \A row \in RowsOf(resp.rows) :
         CountersAreSums(row, player_receiving,
                         RegularGames \cap GamesInSeason(row.season), ReceivingCounters)

\* Passing rows of 300 and 250 yards in two games: yds = 550, games = 2.
C10_Witness ==
  /\ resp.op \in {"getCareerPassingLeaders", "getSeasonPassingRecords"}
  /\ \E row \in RowsOf(resp.rows) : row.yds = 550 /\ row.games = 2

\* ── C11 ─────────────────────────────────────────────────────────────────
DefenseSums == {"tkl", "tfl", "qh", "pd_count", "ff", "sacks", "int_count", "int_yds", "int_td"}

PassingSums == PassingCounters \cup {"sacked"}

NoRowsFor(rows, p) == OfPlayer(rows, p) = {}

\* C11: the career summary of a stat category in which the player has no rows
\* reports 0, not NULL, in every summed field.
C11_MissingAggregateIsZero ==
  /\ (resp.op = "getPlayerCareerPassing" /\ NoRowsFor(player_passing, resp.playerId)) =>
       \A col \in PassingSums : resp.row[col] = 0
  /\ (resp.op = "getPlayerCareerRushing" /\ NoRowsFor(player_rushing, resp.playerId)) =>
       \A col \in RushingCounters : resp.row[col] = 0
  /\ (resp.op = "getPlayerCareerReceiving" /\ NoRowsFor(player_receiving, resp.playerId)) =>
       \A col \in ReceivingCounters : resp.row[col] = 0
  /\ (/\ resp.op = "getPlayerCareerDefense"
      /\ NoRowsFor(player_defense, resp.playerId)
      /\ NoRowsFor(player_sacks, resp.playerId)
      /\ NoRowsFor(player_interceptions, resp.playerId)) =>
       \A col \in DefenseSums : resp.row[col] = 0

\* The defensive part of C11 on its own: getPlayerCareerDefense wraps every
\* sum in COALESCE(.., 0), also when only some of the three tables are empty.
C11_CareerDefenseSumsAreZero ==
  resp.op = "getPlayerCareerDefense" =>
    /\ NoRowsFor(player_defense, resp.playerId) =>
         \A col \in {"tkl", "tfl", "qh", "pd_count", "ff"} : resp.row[col] = 0
    /\ NoRowsFor(player_sacks, resp.playerId) => resp.row.sacks = 0
    /\ NoRowsFor(player_interceptions, resp.playerId) =>
         \A col \in {"int_count", "int_yds", "int_td"} : resp.row[col] = 0

\* ── C12 ─────────────────────────────────────────────────────────────────
\* The games in which player p has a passing, rushing or receiving row.
OffenseGamesOf(p) ==
  GamesOf(player_passing, p) \cup GamesOf(player_rushing, p)
  \cup GamesOf(player_receiving, p)

\* C12: for a player returned by searchPlayers with a row in at least one of
\* the three offensive tables, first_season / last_season are the least /
\* greatest season over all of the player's rows in those tables, also when
\* one or two of the tables hold no row of the player.
C12_SearchSeasonRange ==
  resp.op = "searchPlayers" =>
    \A row \in RowsOf(resp.rows) :
      LET ss == {games[g].season : g \in OffenseGamesOf(row.player_id)}
      IN ss # {} => /\ row.first_season = Least(ss)
                    /\ row.last_season = Greatest(ss)

\* The last_season half of C12 on its own (NULL sorts last in descending order).
C12_SearchLastSeason ==
  resp.op = "searchPlayers" =>
    \A row \in RowsOf(resp.rows) :
      LET ss == {games[g].season : g \in OffenseGamesOf(row.player_id)}
      IN ss # {} => row.last_season = Greatest(ss)

\* ── C13 ─────────────────────────────────────────────────────────────────
\* The games a game log of player p must list under the season filter.
GameLogGames(p, seasonArg) ==
  {g \in OffenseGamesOf(p) :
     /\ games[g].game_type # "preseason"
     /\ seasonArg # undefined => games[g].season = seasonArg}

\* The columns of one category in a game-log row are the values of the
\* player's row of that table for the game, or all NULL without such a row.
CategoryFields(row, rows, p, cols) ==
  \A c \in DOMAIN cols :
    row[c] = IF HasRow(rows, row.game_id, p)
             THEN CellValue(rows, row.game_id, p, cols[c]) ELSE NULL

\* C13: the game log holds exactly one row for each non-preseason game (of
\* the season asked for) in which the player has a passing, rushing or
\* receiving row; a game with only defensive rows is not listed, and the
\* columns of a category without a row are NULL while the others are filled.
C13_GameLogRows ==
  resp.op = "getPlayerGameLog" =>
    LET p == resp.playerId
        listed == GameLogGames(p, resp.season)
    IN /\ Len(resp.rows) = Cardinality(listed)
       /\ {row.game_id : row \in RowsOf(resp.rows)} = listed
       /\ \A row \in RowsOf(resp.rows) :
            /\ row.game_type # "preseason"
            /\ CategoryFields(row, player_passing, p,
                 [pass_att |-> "att", pass_com |-> "com", pass_yds |-> "yds",
                  pass_td |-> "td", pass_int |-> "int_thrown"])
            /\ CategoryFields(row, player_rushing, p,
                 [rush_att |-> "att", rush_yds |-> "yds", rush_td |-> "td"])
            /\ CategoryFields(row, player_receiving, p,
                 [rec |-> "rec", rec_yds |-> "yds", rec_td |-> "td"])

\* A game log of one row with passing columns filled and rushing columns
\* NULL, of a player who also has a sack row in another regular-season or
\* playoff game that the log leaves out.
C13_Witness ==
  /\ resp.op = "getPlayerGameLog"
  /\ Len(resp.rows) = 1
  /\ resp.rows[1].pass_yds > 0 /\ resp.rows[1].rush_yds = NULL
  /\ \E r \in OfPlayer(player_sacks, resp.playerId) :
       /\ r.game_id # resp.rows[1].game_id
       /\ game_type(r) # "preseason"
       /\ Truthy(resp.season) => season(r) = resp.season

\* A game log that leaves out a preseason game with a passing row although
\* the season asked for is that game's season.
C13_PreseasonLeftOut ==
  /\ resp.op = "getPlayerGameLog"
  /\ resp.season = 1999
  /\ \E r \in OfPlayer(player_passing, resp.playerId) : game_type(r) = "preseason"

\* ── C14 ─────────────────────────────────────────────────────────────────
\* The twelve leaderboard queries and the two players-directory queries.
PlayerListings ==
  OffenseLeaderboards
  \cup {"getCareerDefensiveLeaders", "getSeasonDefensiveRecords",
        "getSingleGameDefensiveLeaders", "searchPlayers", "getPlayersWithStats"}

\* C14: no row of a leaderboard, of searchPlayers or of getPlayersWithStats
\* refers to a player whose pfa_url is NULL, whatever stat rows that player has.
C14_NoUnlinkedPlayerListed ==
  resp.op \in PlayerListings =>
    \A row \in RowsOf(resp.rows) : players[row.player_id].pfa_url # NULL

\* An unlinked player p has a row that the answered listing reads.
UnlinkedRowRead(p) ==
  \/ /\ resp.op \in {"getCareerPassingLeaders", "getSeasonPassingRecords",
                     "getSingleGamePassingLeaders", "getPlayersWithStats"}
     /\ Regular(OfPlayer(player_passing, p)) # {}
  \/ /\ resp.op \in {"getCareerDefensiveLeaders", "getSeasonDefensiveRecords",
                     "getSingleGameDefensiveLeaders"}
     /\ Regular(OfPlayer(player_sacks, p)) # {}

\* A listing with a row of a linked player, answered while an unlinked player
\* has a regular-season row in a table the listing reads.
C14_Witness ==
  /\ resp.op \in PlayerListings
  /\ Len(resp.rows) >= 1
  /\ \E p \in PlayerIds : players[p].pfa_url = NULL /\ UnlinkedRowRead(p)

\* ── C15 ─────────────────────────────────────────────────────────────────
\* C15: the rows of each defensive leaderboard (career, season, single game)
\* stand in non-increasing order of the sacks value they report.
C15_DefenseOrderedBySacks ==
  resp.op \in DefensiveLeaderboards =>
    \A i, j \in 1..Len(resp.rows) : i < j => resp.rows[i].sacks >= resp.rows[j].sacks

\* A career or season defensive leaderboard of two rows with different,
\* non-zero sack totals.
C15_Witness ==
  /\ resp.op \in {"getCareerDefensiveLeaders", "getSeasonDefensiveRecords"}
  /\ Len(resp.rows) = 2
  /\ resp.rows[1].sacks > resp.rows[2].sacks
  /\ resp.rows[2].sacks > 0

\* A single-game defensive leaderboard in which a row with a sack stands
\* before a row of a game with an interception and no sack.
C15_SingleGameWitness ==
  /\ resp.op = "getSingleGameDefensiveLeaders"
  /\ Len(resp.rows) = 2
  /\ resp.rows[1].sacks > 0 /\ resp.rows[2].sacks = 0 /\ resp.rows[2].int_count > 0

OrderingStat(name, row) ==
  IF name \in DefensiveLeaderboards THEN row.sacks ELSE row.yds

\* Outside getSeasonDefensiveRecords two answers differ only in rows that tie
\* on the ordering stat.
C16_DifferOnlyInTies ==
  (resp.op = "again" /\ resp.name # "getSeasonDefensiveRecords"
     /\ resp.first # resp.second) =>
    \E a \in RowsOf(resp.first), b \in RowsOf(resp.second) :
      a # b /\ OrderingStat(resp.name, a) = OrderingStat(resp.name, b)

\* ── C17 ─────────────────────────────────────────────────────────────────
GameIdsOf(gs) == {gs[i].game_id : i \in 1..Len(gs)}

\* C17: on a season page the regular, playoff and preseason lists are
\* pairwise disjoint, show no game twice, and their lengths add up to the
\* number of rows getSeasonGames returns for the season.
C17_GameTypePartition ==
  (resp.op = "SeasonDetailPage" /\ resp.outcome = "page") =>
    LET reg == resp.regularGames
        po == resp.playoffGames
        pre == resp.preseasonGames
    IN /\ GameIdsOf(reg) \cap GameIdsOf(po) = {}
       /\ GameIdsOf(reg) \cap GameIdsOf(pre) = {}
       /\ GameIdsOf(po) \cap GameIdsOf(pre) = {}
       /\ Cardinality(GameIdsOf(reg)) = Len(reg)
       /\ Cardinality(GameIdsOf(po)) = Len(po)
       /\ Cardinality(GameIdsOf(pre)) = Len(pre)
       /\ \A all \in getSeasonGames(parseInt(resp.year, 10)) :
            Len(reg) + Len(po) + Len(pre) = Len(all)
       /\ GameIdsOf(reg) \cup GameIdsOf(po) \cup GameIdsOf(pre)
            = {g \in GameIds : games[g].season = parseInt(resp.year, 10)}

\* A season page with two regular-season games and a playoff game.
C17_Witness ==
  /\ resp.op = "SeasonDetailPage" /\ resp.outcome = "page"
  /\ Len(resp.regularGames) = 2 /\ Len(resp.playoffGames) = 1
  /\ Len(resp.preseasonGames) = 0

\* A season page with a regular-season game and a preseason game.
C17_PreseasonWitness ==
  /\ resp.op = "SeasonDetailPage" /\ resp.outcome = "page"
  /\ Len(resp.regularGames) = 1 /\ Len(resp.preseasonGames) = 1

\* ── C18 ─────────────────────────────────────────────────────────────────
Scopes == {"career", "season", "game"}

Categories == {"passing", "rushing", "receiving", "defense"}

\* The query function of each of the twelve leaderboard variants.
LeaderboardQuery(scope, category) ==
  CASE scope = "career" /\ category = "defense" -> "getCareerDefensiveLeaders"
    [] scope = "season" /\ category = "defense" -> "getSeasonDefensiveRecords"
    [] scope = "game" /\ category = "defense" -> "getSingleGameDefensiveLeaders"
    [] scope = "career" /\ category = "passing" -> "getCareerPassingLeaders"
    [] scope = "career" /\ category = "rushing" -> "getCareerRushingLeaders"
    [] scope = "career" /\ category = "receiving" -> "getCareerReceivingLeaders"
    [] scope = "season" /\ category = "passing" -> "getSeasonPassingRecords"
    [] scope = "season" /\ category = "rushing" -> "getSeasonRushingRecords"
    [] scope = "season" /\ category = "receiving" -> "getSeasonReceivingRecords"
    [] scope = "game" /\ category = "passing" -> "getSingleGamePassingLeaders"
    [] scope = "game" /\ category = "rushing" -> "getSingleGameRushingLeaders"
    [] scope = "game" /\ category = "receiving" -> "getSingleGameReceivingLeaders"

\* C18: a request whose scope is not career / season / game or whose category
\* is not passing / rushing / receiving / defense is answered 400 without a
\* data-store query; a request with a valid pair issues exactly the query of
\* that scope and category.
C18_InvalidPairRejected ==
  resp.op = "GET" =>
    IF resp.scope \in Scopes /\ resp.category \in Categories
    THEN resp.status = 200
         /\ resp.queries = <<LeaderboardQuery(resp.scope, resp.category)>>
    ELSE resp.status = 400 /\ resp.queries = <<>>

\* The parts of C18 that hold: no query is issued for an invalid pair, and a
\* valid pair is dispatched to its one query.
C18_DispatchAndNoQuery ==
  resp.op = "GET" =>
    IF resp.scope \in Scopes /\ resp.category \in Categories
    THEN resp.status = 200
         /\ resp.queries = <<LeaderboardQuery(resp.scope, resp.category)>>
    ELSE resp.queries = <<>>

\* ── C19 ─────────────────────────────────────────────────────────────────
\* A decimal integer: an optional sign and one or more digits, nothing else.
WellFormedInteger(str) ==
  LET body == IF str # <<>> /\ Head(str) \in {"-", "+"} THEN Tail(str) ELSE str
  IN body # <<>> /\ \A i \in 1..Len(body) : IsDigit(body[i], 10)

\* C19: a season page or draft-year page request whose year is not a
\* well-formed integer is answered not-found and issues no query.
C19_MalformedYearIssuesNoQuery ==
  (resp.op \in {"SeasonDetailPage", "DraftYearPage"} /\ ~WellFormedInteger(resp.year)) =>
    resp.outcome = "notFound" /\ resp.queries = <<>>

\* The part of C19 that holds: a year that parseInt reads as NaN is answered
\* not-found before any query.
C19_NaNYearIssuesNoQuery ==
  (resp.op \in {"SeasonDetailPage", "DraftYearPage"} /\ isNaN(parseInt(resp.year, 10))) =>
    resp.outcome = "notFound" /\ resp.queries = <<>>

\* ── C20 ─────────────────────────────────────────────────────────────────
\* The games of a season and type in the games table.
SeasonGamesOfType(year, t) ==
  {g \in GameIds : games[g].season = year /\ games[g].game_type = t}

\* C20: the season page answers not-found exactly when the season has no
\* game row; a season with games is rendered with each section holding the
\* games of its type, however few; a player or game id without a row yields
\* the absent result and a not-found page, an id with a row yields the page.
C20_NotFoundVersusEmpty ==
  /\ resp.op = "SeasonDetailPage" =>
       LET year == parseInt(resp.year, 10)
       IN /\ resp.outcome = "notFound" <=> {g \in GameIds : games[g].season = year} = {}
          /\ resp.outcome = "page" =>
               /\ GameIdsOf(resp.regularGames) = SeasonGamesOfType(year, "regular")
               /\ GameIdsOf(resp.playoffGames) = SeasonGamesOfType(year, "playoff")
               /\ GameIdsOf(resp.preseasonGames) = SeasonGamesOfType(year, "preseason")
  /\ resp.op = "PlayerProfilePage" =>
       /\ resp.outcome = "notFound" <=> resp.id \notin PlayerIds
       /\ resp.outcome = "notFound" <=> resp.player = null
       /\ resp.outcome = "page" => resp.player.player_id = resp.id
  /\ resp.op = "GamePage" =>
       /\ resp.outcome = "notFound" <=> resp.id \notin GameIds
       /\ resp.outcome = "notFound" <=> resp.game = null
       /\ resp.outcome = "page" => resp.game.game_id = resp.id

\* A season page rendered for a season with games, no playoff game and no
\* passing leader.
C20_Witness ==
  /\ resp.op = "SeasonDetailPage" /\ resp.outcome = "page"
  /\ Len(resp.regularGames) >= 1
  /\ resp.playoffGames = <<>>
  /\ resp.passLeaders = <<>> /\ Len(resp.rushLeaders) >= 1

\* A not-found answer of each of the three pages.
C20_SeasonNotFound ==
  resp.op = "SeasonDetailPage" /\ resp.outcome = "notFound" /\ resp.queries # <<>>

C20_PlayerNotFound == resp.op = "PlayerProfilePage" /\ resp.outcome = "notFound"

C20_GameNotFound == resp.op = "GamePage" /\ resp.outcome = "notFound"

\* ── C21 ─────────────────────────────────────────────────────────────────
FanOutStarted == render.page # "none" /\ render.queries # <<>>

Rejected == {i \in DOMAIN render.settled : render.settled[i] = "rejected"}

Pending == {i \in DOMAIN render.settled : render.settled[i] = "pending"}

\* C21: on the player, game and season pages every fan-out query is issued
\* once, together with the others; the page (or the season page's not-found)
\* is decided only when every query has completed with rows; as soon as one
\* query has failed, whatever completed before or completes after it, the
\* render has failed, and no query is issued a second time.
C21_AllOrNothingFanOut ==
  FanOutStarted =>
    /\ \A i \in DOMAIN render.queries : render.issued[i] = 1
    /\ render.outcome \in {"page", "notFound"} => Rejected = {} /\ Pending = {}
    /\ Rejected # {} => render.outcome = "error"
    /\ render.outcome = "awaiting" => Pending # {}

\* Seven queries of the player page returned rows and one failed.
C21_Witness ==
  /\ FanOutStarted /\ render.page = "player"
  /\ Cardinality(Rejected) = 1 /\ Pending = {}
  /\ render.outcome = "error"

\* Every query of the season page returned rows and the page is composed.
C21_PageComposed ==
  /\ FanOutStarted /\ render.page = "season"
  /\ Rejected = {} /\ Pending = {} /\ render.outcome = "page"

\* ── C22 ─────────────────────────────────────────────────────────────────
\* C22: the passing leaders of a season in which no passing row exists, and
\* the season passing records over a dataset without passing rows, are the
\* empty list.
C22_NoPassingRowsGivesEmptyList ==
  /\ (resp.op = "getSeasonPassingLeaders" /\ InSeason(player_passing, resp.year) = {})
       => resp.rows = <<>>
  /\ (resp.op = "getSeasonPassingRecords" /\ player_passing = {})
       => resp.rows = <<>>

\* Passing rows exist, none of them in the season asked for.
C22_Witness ==
  /\ resp.op = "getSeasonPassingLeaders"
  /\ player_passing # {} /\ InSeason(player_passing, resp.year) = {}
  /\ resp.rows = <<>>

\* The season records asked for over no passing rows.
C22_RecordsWitness ==
  resp.op = "getSeasonPassingRecords" /\ player_passing = {} /\ resp.rows = <<>>

\* ── C23 ─────────────────────────────────────────────────────────────────
RateKeys == {"pct", "avg", "rtg", "lg"}

NoRateColumn(rows) == \A row \in rows : DOMAIN row \cap {"pct", "avg", "rtg"} = {}

TotalsShown == Totals(table.data, table.columns)

\* C23: no career or season aggregate carries a pct, avg or rtg column (the
\* per-game rates are not summed into one), and the totals row of a table
\* shows no sum under a column keyed pct, avg, rtg or lg.
C23_RatesAreNeverSummed ==
  /\ NoRateColumn(CareerPassingRows) /\ NoRateColumn(CareerRushingRows)
  /\ NoRateColumn(CareerReceivingRows)
  /\ NoRateColumn(SeasonPassingRows) /\ NoRateColumn(SeasonRushingRows)
  /\ NoRateColumn(SeasonReceivingRows)
  /\ \A i \in DOMAIN table.columns :
       table.columns[i].key \in RateKeys => TotalsShown[i].kind # "sum"

\* A table of two lines with a totals row: the yards are summed, while the
\* rating column, which has a number in it, shows nothing.
C23_Witness ==
  /\ Len(table.data) > 1
  /\ \E i \in DOMAIN table.columns :
       /\ table.columns[i].key = "rtg"
       /\ \E j \in DOMAIN table.data : table.data[j].rtg # NULL
       /\ TotalsShown[i].kind = "null"
  /\ \E i \in DOMAIN table.columns :
       table.columns[i].key = "yds" /\ TotalsShown[i].kind = "sum"
  /\ CareerPassingRows # {}

\* The same for the rushing table's avg and lg columns.
C23_RushingWitness ==
  /\ Len(table.data) > 1
  /\ \E i \in DOMAIN table.columns :
       /\ table.columns[i].key = "lg"
       /\ \E j \in DOMAIN table.data : table.data[j].lg # NULL
       /\ TotalsShown[i].kind = "null"

\* ── C30 ─────────────────────────────────────────────────────────────────
sorted == Sort(table.data, table.sortCol, table.sortAsc)

NullsComeLast ==
  table.sortCol \notin StringKeys \cup {""} =>
    \A i, j \in DOMAIN sorted :
      (i < j /\ sorted[i][table.sortCol] = NULL) => sorted[j][table.sortCol] = NULL

ClickSetsSortState ==
  (table.columns # <<>> /\ table' # table) =>
    /\ \E i \in DOMAIN table.columns : table.columns[i].key = table'.clicked
    /\ table'.sortCol = table'.clicked
    /\ table'.sortAsc = IF table.sortCol = table'.clicked THEN ~table.sortAsc ELSE FALSE
    /\ table'.data = table.data /\ table'.columns = table.columns

\* C30: every click on a header leaves the clicked column as the sort column,
\* with the direction flipped when it already was the sort column and
\* descending otherwise; and in the displayed order the rows whose value in
\* the sort column is null stand after all the others, ascending or descending.
C30_SortState == []NullsComeLast /\ [][ClickSetsSortState]_vars

\* The rating header clicked twice: ascending by rating, with a line without
\* a rating and a line with one.
C30_Witness ==
  /\ table.clicked = "rtg" /\ table.sortCol = "rtg" /\ table.sortAsc
  /\ \E i, j \in DOMAIN table.data :
       table.data[i].rtg = NULL /\ table.data[j].rtg # NULL
  /\ sorted[Len(sorted)].rtg = NULL

\* ── C24 ─────────────────────────────────────────────────────────────────
\* The scope and the category of a passing / rushing / receiving leaderboard.
ScopeOf(name) ==
  CHOOSE scope \in Scopes :
    \E category \in Categories : LeaderboardQuery(scope, category) = name

CategoryOf(name) ==
  CHOOSE category \in Categories :
    \E scope \in Scopes : LeaderboardQuery(scope, category) = name

\* The eligible entries of a leaderboard: the linked players with a row in a
\* regular game (career), with the season (season) or the game (game) of it.
Eligible(scope, category) ==
  LET T == OffenseTable(category)
      rs == {r \in T : r.game_id \in RegularGames /\ players[r.player_id].pfa_url # NULL}
  IN CASE scope = "career" -> {<<r.player_id>> : r \in rs}
       [] scope = "season" -> {<<r.player_id, games[r.game_id].season>> : r \in rs}
       [] scope = "game" -> {<<r.player_id, r.game_id>> : r \in rs}

\* The yards of an eligible entry, summed over its regular games.
YdsOf(scope, category, e) ==
  LET gs == CASE scope = "career" -> RegularGames
              [] scope = "season" -> RegularGames \cap GamesInSeason(e[2])
              [] scope = "game" -> {e[2]}
  IN SumOverGames(OffenseTable(category), e[1], gs, "yds")

\* The entry a returned row stands for.
EntryOf(scope, row) ==
  CASE scope = "career" -> <<row.player_id>>
    [] scope = "season" -> <<row.player_id, row.season>>
    [] scope = "game" -> <<row.player_id, GameOfDate(row.game_date)>>

\* C24: a passing, rushing or receiving leaderboard of any scope returns
\* min(limit, number of eligible entries) rows, in order of non-increasing
\* yds, and no eligible entry left out has more yds than a returned row.
C24_TopNByYds ==
  resp.op \in OffenseLeaderboards =>
    LET scope == ScopeOf(resp.op)
        category == CategoryOf(resp.op)
        all == Eligible(scope, category)
        returned == {EntryOf(scope, resp.rows[i]) : i \in DOMAIN resp.rows}
    IN /\ Len(resp.rows) <= resp.limit
       /\ Len(resp.rows) = IF Cardinality(all) < resp.limit THEN Cardinality(all)
                           ELSE resp.limit
       /\ \A i, j \in DOMAIN resp.rows : i < j => resp.rows[i].yds >= resp.rows[j].yds
       /\ \A e \in all \ returned :
            \A i \in DOMAIN resp.rows : YdsOf(scope, category, e) <= resp.rows[i].yds

\* A leaderboard cut by its limit, with an eligible entry of fewer yards
\* left out.
C24_Witness ==
  /\ resp.op \in OffenseLeaderboards
  /\ Len(resp.rows) = resp.limit
  /\ \E e \in Eligible(ScopeOf(resp.op), CategoryOf(resp.op)) :
       /\ e \notin {EntryOf(ScopeOf(resp.op), resp.rows[i]) : i \in DOMAIN resp.rows}
       /\ \A i \in DOMAIN resp.rows :
            YdsOf(ScopeOf(resp.op), CategoryOf(resp.op), e) < resp.rows[i].yds

\* ── C25 ─────────────────────────────────────────────────────────────────
AllLeaderboards ==
  {LeaderboardQuery(scope, category) : scope \in Scopes, category \in Categories}

\* C25: in a leaderboard of any scope and category no two rows stand for the
\* same player (career), the same player and season (season) or the same
\* player and game (game).
C25_OneRowPerIdentity ==
  resp.op \in AllLeaderboards =>
    \A i, j \in DOMAIN resp.rows :
      i # j => EntryOf(ScopeOf(resp.op), resp.rows[i]) # EntryOf(ScopeOf(resp.op), resp.rows[j])

\* A player with a row in two of the defense tables in regular games of one
\* season is one row of the season leaderboard.
C25_Witness ==
  /\ resp.op = "getSeasonDefensiveRecords"
  /\ \E i \in DOMAIN resp.rows :
       LET p == resp.rows[i].player_id
           in(T) == \E r \in T : /\ r.player_id = p
                                 /\ r.game_id \in RegularGames
                                 /\ games[r.game_id].season = resp.rows[i].season
       IN in(player_defense) /\ in(player_sacks)

\* The same for the career and the single-game leaderboards.
C25_CareerWitness ==
  /\ resp.op = "getCareerDefensiveLeaders"
  /\ \E i \in DOMAIN resp.rows :
       /\ \E r \in player_sacks : r.player_id = resp.rows[i].player_id
       /\ \E r \in player_interceptions : r.player_id = resp.rows[i].player_id

C25_SingleGameWitness ==
  /\ resp.op = "getSingleGameDefensiveLeaders"
  /\ \E i \in DOMAIN resp.rows :
       resp.rows[i].tkl > 0 /\ resp.rows[i].sacks > 0

\* ── C27 ─────────────────────────────────────────────────────────────────
\* C27: every row of the career defensive leaderboard has games >= 1.
C27_CareerDefenseRowsHaveAGame ==
  resp.op = "getCareerDefensiveLeaders" =>
    \A i \in DOMAIN resp.rows : resp.rows[i].games >= 1

\* What holds instead: a row has games = 0 exactly when the player has no
\* row in a regular game, and then all its counters are 0.
C27_ZeroGamesIsNoRegularRow ==
  resp.op = "getCareerDefensiveLeaders" =>
    \A i \in DOMAIN resp.rows :
      LET row == resp.rows[i]
          regular == (GamesOf(player_defense, row.player_id)
                        \cup GamesOf(player_sacks, row.player_id)
                        \cup GamesOf(player_interceptions, row.player_id)) \cap RegularGames
      IN /\ row.games = 0 <=> regular = {}
         /\ row.games = 0 => row.tkl = 0 /\ row.sacks = 0 /\ row.int_count = 0

\* ── C28 ─────────────────────────────────────────────────────────────────
\* C28: a request whose gameType is none of regular / playoff / preseason is
\* handled as gameType = regular: it is rejected only if the same request
\* without the parameter is (unknown scope or category), and otherwise its
\* data is a response of that request.
C28_UnknownGameTypeIsRegular ==
  (resp.op = "GET" /\ resp.gameTypeParam \notin {ABSENT, "regular", "playoff", "preseason"}) =>
    /\ resp.gameType = "regular"
    /\ resp.status = IF Lookup(resp.scope, resp.category) = "undefined" THEN 400 ELSE 200
    /\ resp.status = 200 =>
         resp.data \in CallFetcher(Lookup(resp.scope, resp.category), ApiLimit, "regular")

\* gameType=all on the career passing leaderboard, answered with rows.
C28_Witness ==
  /\ resp.op = "GET" /\ resp.gameTypeParam = "all"
  /\ resp.scope = "career" /\ resp.category = "passing"
  /\ resp.status = 200 /\ resp.data # <<>>

\* ── C29 ─────────────────────────────────────────────────────────────────
\* C29: the game page shows WIN for result 'W', LOSS for 'L', and TIE only
\* for result 'T'; a game without a result is not shown as a tie.
C29_TieBadgeOnlyForTies ==
  (resp.op = "GamePage" /\ resp.outcome = "page") =>
    /\ resp.game.result = "W" => resp.badge = "WIN"
    /\ resp.game.result = "L" => resp.badge = "LOSS"
    /\ resp.badge = "TIE" => resp.game.result = "T"

\* What holds instead: WIN and LOSS are shown exactly for 'W' and 'L', and
\* TIE for every other value of result, NULL included.
C29_TieBadgeForEverythingElse ==
  (resp.op = "GamePage" /\ resp.outcome = "page") =>
    /\ resp.badge = "WIN" <=> resp.game.result = "W"
    /\ resp.badge = "LOSS" <=> resp.game.result = "L"
    /\ resp.badge = "TIE" <=> resp.game.result \notin {"W", "L"}

\* ── C26 ─────────────────────────────────────────────────────────────────
\* A request for the selection now shown by the tabs is in flight.
CurrentInFlight ==
  \E r \in stats.inFlight :
    r.scope = stats.scope /\ r.category = stats.category /\ r.gameType = stats.gameType

\* C26: once every request the page issued has completed with a response, the
\* data of the table is a response for the selected scope, category and game
\* type; and loading is false only while no request for that selection is
\* in flight.
C26_TableShowsCurrentSelection ==
  /\ (stats.mounted /\ stats.inFlight = {} /\ ~stats.failed) =>
       stats.data \in LeadersResponses(stats.scope, stats.category, stats.gameType)
  /\ ~stats.loading => ~CurrentInFlight

\* What holds instead: with no tab clicked the one request, once answered,
\* gives the data and ends the loading state.
C26_SingleRequestIsShown ==
  (stats.mounted /\ stats.clicks = 0 /\ stats.inFlight = {} /\ ~stats.failed) =>
    /\ stats.data \in LeadersResponses(stats.scope, stats.category, stats.gameType)
    /\ ~stats.loading

\* The first half alone: the answer of an earlier selection arrives last and
\* stays in the table.
C26_DataOfCurrentSelection ==
  (stats.mounted /\ stats.inFlight = {} /\ ~stats.failed) =>
    stats.data \in LeadersResponses(stats.scope, stats.category, stats.gameType)

====
